---------------------------- MODULE Spec2Model ----------------------------
(***************************************************************************)
(* A model of the green-paths routing server: the graph store              *)
(* (src/src/app/graph_handler.py), the /quietpaths request handler         *)
(* (src/src/green_paths_app.py) and the helpers they use.                  *)
(*                                                                         *)
(* Quantities are integers: a length or a cost is a number of thousandths  *)
(* (0.001), a noise-band cost coefficient and a noise sensitivity are      *)
(* numbers of tenths.  round(x, 2) is Round2: the nearest multiple of 10   *)
(* thousandths, ties to even.                                              *)
(*                                                                         *)
(* The module holds several specifications over one set of variables:      *)
(*   Spec         one request at a time splices, and cleans up             *)
(*   SpecPath     get_least_cost_path on a live graph                      *)
(*   SpecConc     several requests interleave on the shared graph          *)
(*   SpecHandler  the control flow of the /quietpaths handler              *)
(*   SpecNoise    the edge-level noise-cost policy                         *)
(*   SpecNearest  the expanding-radius searches                            *)
(* Each leaves the variables of the others at their initial values.        *)
(***************************************************************************)
EXTENDS Integers, Sequences, FiniteSets, TLC

VARIABLES
    graph,        \* self.graph: [vs: Seq(vertex), es: Seq(edge)], ids are index - 1
    ecount,       \* self.ecount, recorded at load
    vcount,       \* self.vcount, recorded at load
    pf,           \* the splice records one Path Finder holds (sequential use)
    pre,          \* the graph as it was when the current request began
    lcp,          \* the outcome of the last get_least_cost_path call
    req,          \* the requests in flight on the shared graph, each with its locals
    policy,       \* how far the noise-cost policy has been applied to the graph
    hnd,          \* the /quietpaths handler invocations, each with its locals
    near,         \* the expanding-radius search in progress
    job,          \* the AQI refresh job: its clock, its due time and its running instances
    ser,          \* the graph being serialized, the saved file and what was read back
    pna,          \* a path's noise attributes, the baseline's, and the call's outcome
    har,          \* the test harness: its graph and the last test's outcome
    gone,         \* what another request's cleanup deleted of a splice
    upd           \* the edge table update_edge_attr_to_graph was last given

\* Python's None is the empty sequence; a value that may be None and is a number
\* or a dictionary is held as the one-element sequence Some(v).
None == <<>>

Some(v) == <<v>>

Val(opt) == opt[1]

(***************************************************************************)
(* Bounds of the model.                                                    *)
(***************************************************************************)
NumV == 3
MaxE == 2
NumReq == 2

(***************************************************************************)
(* Arithmetic helpers.                                                     *)
(***************************************************************************)
Abs(x) == IF x < 0 THEN -x ELSE x

Min(a, b) == IF a <= b THEN a ELSE b

Max(a, b) == IF a >= b THEN a ELSE b

RECURSIVE SumSeq(_)
SumSeq(s) == IF s = <<>> THEN 0 ELSE Head(s) + SumSeq(Tail(s))

RECURSIVE SumFun(_, _)
SumFun(f, D) ==
    IF D = {} THEN 0
    ELSE LET d == CHOOSE x \in D : TRUE IN f[d] + SumFun(f, D \ {d})

\* The integer nearest to n / d (d > 0, n >= 0), ties to the even one.
RoundHalfEven(n, d) ==
    LET q == n \div d
        r == n % d
    IN  IF 2 * r < d THEN q
        ELSE IF 2 * r > d THEN q + 1
        ELSE IF q % 2 = 0 THEN q ELSE q + 1

\* round(x, 2) of a value x given in thousandths.
Round2(x) == RoundHalfEven(x, 10) * 10

\* round(x, 2) of a value given as num / den thousandths.
Round2Frac(num, den) == RoundHalfEven(num, den * 10) * 10

(***************************************************************************)
(* The graph library (igraph) as the graph handler uses it.  A vertex or   *)
(* edge id is the element's position in its sequence, counted from 0;      *)
(* deleting elements renumbers the ones after them.  A call that the       *)
(* library refuses (an id out of range, no edge between two vertices)      *)
(* raises and leaves the graph as it was.                                  *)
(***************************************************************************)
VCount(g) == Len(g.vs)

ECount(g) == Len(g.es)

VertexIds(g) == 0 .. (VCount(g) - 1)

EdgeIds(g) == 0 .. (ECount(g) - 1)

Vertex(g, i) == g.vs[i + 1]

Edge(g, i) == g.es[i + 1]

\* graph.add_vertex(**attrs)
add_vertex(g, point) == [g EXCEPT !.vs = Append(@, [geometry |-> point])]

\* The attributes of an edge that add_edges has just made: all absent.
BlankEdge(s, t) ==
    [source |-> s, target |-> t, uv |-> None, length |-> None, noises |-> None,
     nc |-> None, aqi |-> None, geometry |-> None]

\* graph.add_edges(pairs) raises when a pair names a vertex that does not exist.
add_edges_ok(g, uvs) ==
    \A k \in 1 .. Len(uvs) : uvs[k][1] \in VertexIds(g) /\ uvs[k][2] \in VertexIds(g)

add_edges(g, uvs) ==
    [g EXCEPT !.es = @ \o [k \in 1 .. Len(uvs) |-> BlankEdge(uvs[k][1], uvs[k][2])]]

\* The ids graph.get_eid(from, to) may return: an edge from -> to (the graph is
\* directed); the empty set when the call raises.
get_eid_set(g, from, to) ==
    IF from \in VertexIds(g) /\ to \in VertexIds(g)
    THEN {i \in EdgeIds(g) : Edge(g, i).source = from /\ Edge(g, i).target = to}
    ELSE {}

\* The subsequence of s at the positions in keep, in order.
RECURSIVE SelectIdx(_, _, _)
SelectIdx(s, keep, k) ==
    IF k > Len(s) THEN <<>>
    ELSE IF k \in keep THEN <<s[k]>> \o SelectIdx(s, keep, k + 1)
    ELSE SelectIdx(s, keep, k + 1)

\* graph.delete_edges(ids) raises when an id is not an edge of the graph.
delete_edges_ok(g, ids) == ids \subseteq EdgeIds(g)

delete_edges(g, ids) ==
    [g EXCEPT !.es = SelectIdx(@, {k \in 1 .. Len(@) : (k - 1) \notin ids}, 1)]

\* graph.delete_vertices(ids) raises when an id is not a vertex of the graph.
delete_vertices_ok(g, ids) == ids \subseteq VertexIds(g)

\* The id vertex i has once the vertices in ids are gone.
Renumbered(i, ids) == i - Cardinality({d \in ids : d < i})

\* A deleted vertex takes its edges with it; the other vertices close ranks.
delete_vertices(g, ids) ==
    LET keptE == {k \in 1 .. Len(g.es) :
                    g.es[k].source \notin ids /\ g.es[k].target \notin ids}
        es1 == SelectIdx(g.es, keptE, 1)
    IN  [vs |-> SelectIdx(g.vs, {k \in 1 .. Len(g.vs) : (k - 1) \notin ids}, 1),
         es |-> [k \in 1 .. Len(es1) |->
                   [es1[k] EXCEPT !.source = Renumbered(@, ids),
                                  !.target = Renumbered(@, ids)]]]

(***************************************************************************)
(* Geometry.  A point is <<x, y>>; a line geometry (LineString) is a       *)
(* sequence of points whose consecutive points differ in one coordinate,   *)
(* so that its length is an integer; an absent geometry is None.           *)
(***************************************************************************)
IsLineString(geom) == geom # None /\ Len(geom) >= 2

SegLength(p, q) == Abs(p[1] - q[1]) + Abs(p[2] - q[2])

RECURSIVE GeomLength(_)
GeomLength(geom) ==
    IF Len(geom) < 2 THEN 0
    ELSE SegLength(geom[1], geom[2]) + GeomLength(Tail(geom))

\* LineString(link.coords[::-1])
RECURSIVE Reverse(_)
Reverse(s) == IF s = <<>> THEN <<>> ELSE Reverse(Tail(s)) \o <<Head(s)>>

\* geom_utils.split_line_at_point: the two sub-lines, each running from an
\* endpoint of the edge to the split point.
split_line_at_point(node_from_p, node_to_p, geom, split_point) ==
    << <<node_from_p, split_point>>, <<node_to_p, split_point>> >>

(***************************************************************************)
(* The noise exposure model (utils/noise_exposures.py).                    *)
(***************************************************************************)
\* noise_exps.get_noise_sensitivities(), in tenths.
Sens == {5, 20}

\* noise_exps.get_db_costs(version=3): noise band -> cost per metre, in tenths.
db_costs == (40 :> 0) @@ (55 :> 2) @@ (70 :> 5)

Bands == DOMAIN db_costs

\* Python's truth value of a noise map: None and {} are false.
HasNoises(noises) == noises # None /\ DOMAIN Val(noises) # {}

\* noise_exps.estimate_db_40_exp: the length not yet attributed to a band.
estimate_db_40_exp(noises, length) ==
    Max(0, length - SumFun(noises, DOMAIN noises))

\* noises[40] = db_40_exp
WithBand40(noises, db_40_exp) ==
    [b \in DOMAIN noises \cup {40} |-> IF b = 40 THEN db_40_exp ELSE noises[b]]

\* noise_exps.get_noise_cost, in hundred-thousandths (length x tenths x tenths).
get_noise_cost(noises, costs, sen) ==
    SumFun([b \in DOMAIN noises |-> noises[b] * costs[b] * sen], DOMAIN noises)

(***************************************************************************)
(* GraphHandler.__set_noise_costs_to_edges, for one edge (the loop body).  *)
(***************************************************************************)
\* A variant that estimates the 40 dB exposure from the other bands only and
\* adds it to the 40 dB exposure the map already has.
NoisesWith40_Accumulated(edge) ==
    IF HasNoises(edge.noises)
    THEN LET noises == Val(edge.noises)
             others == [b \in DOMAIN noises \ {40} |-> noises[b]]
             db_40_exp == estimate_db_40_exp(others, Val(edge.length))
         IN  IF db_40_exp > 0
             THEN Some(WithBand40(noises,
                      (IF 40 \in DOMAIN noises THEN noises[40] ELSE 0) + db_40_exp))
             ELSE edge.noises
    ELSE edge.noises

\* The noise map with the estimated 40 dB exposure folded in (lines 76-82).
NoisesWith40(edge) ==
    IF HasNoises(edge.noises)
    THEN LET db_40_exp == estimate_db_40_exp(Val(edge.noises), Val(edge.length))
         IN  IF db_40_exp > 0
             THEN Some(WithBand40(Val(edge.noises), db_40_exp))
             ELSE edge.noises
    ELSE edge.noises

\* A variant that looks at the noise map first and at the geometry only for an
\* edge without one.
EdgeNoiseCost_NoisesFirst(edge, noises, sen) ==
    IF HasNoises(noises)
    THEN get_noise_cost(Val(noises), db_costs, sen)
    ELSE IF IsLineString(edge.geometry)
    THEN Val(edge.length) * 20 * 100
    ELSE 0

\* The noise cost of lines 86-95, in hundred-thousandths.
EdgeNoiseCost(edge, noises, sen) ==
    IF ~HasNoises(noises) /\ IsLineString(edge.geometry)
    THEN Val(edge.length) * 20 * 100
    ELSE IF ~IsLineString(edge.geometry)
    THEN 0
    ELSE get_noise_cost(Val(noises), db_costs, sen)

\* A variant that takes the noise cost off the length.
SetNoiseCostsToEdge_CostSubtracted(edge) ==
    LET noises == NoisesWith40(edge)
    IN  [edge EXCEPT
            !.noises = noises,
            !.nc = [sen \in Sens |->
                      Round2Frac(Val(edge.length) * 100
                                   - EdgeNoiseCost(edge, noises, sen), 100)]]

\* The loop body of lines 74-96: the edge with its noise map and noise costs set.
SetNoiseCostsToEdge(edge) ==
    LET noises == NoisesWith40(edge)
    IN  [edge EXCEPT
            !.noises = noises,
            !.nc = [sen \in Sens |->
                      Round2Frac(Val(edge.length) * 100
                                   + EdgeNoiseCost(edge, noises, sen), 100)]]

\* The whole loop over graph.es.
set_noise_costs_to_edges(g) ==
    [g EXCEPT !.es = [k \in 1 .. Len(@) |-> SetNoiseCostsToEdge(@[k])]]

(***************************************************************************)
(* Dynamic node/edge splicing (graph_handler.py, lines 191-285).           *)
(***************************************************************************)
\* A variant that returns the id of the last vertex.
get_new_node_id_LastId(g) == VCount(g) - 1

\* get_new_node_id (lines 191-194).
get_new_node_id(g) == VCount(g)

get_new_edge_id(g) == ECount(g)

\* add_new_node_to_graph: the graph after the call; the id it returns is
\* get_new_node_id of the graph before.
add_new_node_to_graph(g, point) == add_vertex(g, point)

\* A variant that counts the ids from the edge count plus one.
new_edge_ids_FromOne(g, uvs) == [k \in 1 .. Len(uvs) |-> get_new_edge_id(g) + k]

\* add_new_edges_to_graph: the ids it returns.
new_edge_ids(g, uvs) == [k \in 1 .. Len(uvs) |-> get_new_edge_id(g) + (k - 1)]

\* noise_exps.get_link_edge_noise_cost_estimates: the parent's noise-cost fields
\* rescaled by link length / parent length.
get_link_edge_noise_cost_estimates(edge, link_geom) ==
    IF edge.nc = None THEN None
    ELSE [sen \in DOMAIN edge.nc |->
            Round2Frac(edge.nc[sen] * GeomLength(link_geom), Val(edge.length))]

\* get_link_edge_aqi_cost_estimates: the parent's AQI, None when it has none.
get_link_edge_aqi_cost_estimates(edge, link_geom) ==
    IF edge.aqi = None \/ Val(edge.aqi) = 0 THEN None ELSE edge.aqi

\* The attributes set on a linking edge (lines 249-261 and 270-275).
LinkAttrs(uv, edge, link, geom) ==
    [uv |-> uv,
     nc |-> get_link_edge_noise_cost_estimates(edge, link),
     aqi |-> get_link_edge_aqi_cost_estimates(edge, link),
     geometry |-> geom,
     length |-> Some(Round2(GeomLength(link)))]

\* create_linking_edges_for_new_node raises, before it changes the graph, when
\* an endpoint of the parent edge or the new node is no vertex of the graph.
create_linking_edges_ok(g, new_node, edge) ==
    /\ edge.uv[1] \in VertexIds(g)
    /\ edge.uv[2] \in VertexIds(g)
    /\ new_node \in VertexIds(g)

\* A variant whose reversed edges take the attributes of the other link.
NewEdgeAttrs_ReversedFromOtherLink(g, new_node, split_point, edge) ==
    LET node_from == edge.uv[1]
        node_to == edge.uv[2]
        links == split_line_at_point(Vertex(g, node_from).geometry,
                     Vertex(g, node_to).geometry, edge.geometry, split_point)
        link1 == links[1]
        link2 == links[2]
    IN  << LinkAttrs(<<node_from, new_node>>, edge, link1, link1),
           LinkAttrs(<<new_node, node_from>>, edge, link2, Reverse(link1)),
           LinkAttrs(<<new_node, node_to>>, edge, link2, link2),
           LinkAttrs(<<node_to, new_node>>, edge, link1, Reverse(link2)) >>

\* The four linking edges' attributes, in the order they are added.
NewEdgeAttrs(g, new_node, split_point, edge) ==
    LET node_from == edge.uv[1]
        node_to == edge.uv[2]
        links == split_line_at_point(Vertex(g, node_from).geometry,
                     Vertex(g, node_to).geometry, edge.geometry, split_point)
        link1 == links[1]
        link2 == links[2]
    IN  << LinkAttrs(<<node_from, new_node>>, edge, link1, link1),
           LinkAttrs(<<new_node, node_from>>, edge, link1, Reverse(link1)),
           LinkAttrs(<<new_node, node_to>>, edge, link2, link2),
           LinkAttrs(<<node_to, new_node>>, edge, link2, Reverse(link2)) >>

\* graph.es[edge_id][key] = value for every key of attrs.
SetEdgeAttrs(e, attrs) ==
    [e EXCEPT !.uv = attrs.uv, !.nc = attrs.nc, !.aqi = attrs.aqi,
              !.geometry = attrs.geometry, !.length = attrs.length]

\* The graph after create_linking_edges_for_new_node.
create_linking_edges_graph(g, new_node, split_point, edge) ==
    LET attrs == NewEdgeAttrs(g, new_node, split_point, edge)
        edge_tuples == [k \in 1 .. 4 |-> attrs[k].uv]
        ids == new_edge_ids(g, edge_tuples)
        g1 == add_edges(g, edge_tuples)
    IN  [g1 EXCEPT !.es = [i \in 1 .. Len(@) |->
            IF \E k \in 1 .. 4 : ids[k] = i - 1
            THEN SetEdgeAttrs(@[i], attrs[CHOOSE k \in 1 .. 4 : ids[k] = i - 1])
            ELSE @[i]]]

\* The record create_linking_edges_for_new_node returns (lines 281-285).
create_linking_edges_record(g, new_node, split_point, edge) ==
    LET attrs == NewEdgeAttrs(g, new_node, split_point, edge)
    IN  [node_from |-> edge.uv[1], new_node |-> new_node, node_to |-> edge.uv[2],
         link1 |-> [attrs[1] EXCEPT !.uv = <<new_node, edge.uv[1]>>],
         link2 |-> [attrs[3] EXCEPT !.uv = <<edge.uv[2], new_node>>]]

(***************************************************************************)
(* delete_added_linking_edges (lines 306-358).                             *)
(***************************************************************************)
\* What one try block may append to delete_edge_ids: the lookup of link1, then
\* of link2; a lookup that raises ends the block with what was appended.
LinkEidChoices(g, link_edges) ==
    IF link_edges = None THEN {{}}
    ELSE LET s1 == get_eid_set(g, link_edges.link1.uv[1], link_edges.link1.uv[2])
             s2 == get_eid_set(g, link_edges.link2.uv[1], link_edges.link2.uv[2])
         IN  IF s1 = {} THEN {{}}
             ELSE IF s2 = {} THEN {{a} : a \in s1}
             ELSE {{a, b} : a \in s1, b \in s2}

\* A variant that forgets the destination's new node.
DeleteNodeIds_OrigOnly(orig_edges, orig_node, dest_edges, dest_node) ==
    IF orig_edges # None THEN {orig_node.node} ELSE {}

\* delete_node_ids
DeleteNodeIds(orig_edges, orig_node, dest_edges, dest_node) ==
    (IF orig_edges # None THEN {orig_node.node} ELSE {})
        \cup (IF dest_edges # None THEN {dest_node.node} ELSE {})

\* Lines 343-352: each deletion is tried; one that raises changes nothing.
DeleteEdgesThenVertices(g, delete_edge_ids, delete_node_ids) ==
    LET g1 == IF delete_edges_ok(g, delete_edge_ids)
              THEN delete_edges(g, delete_edge_ids) ELSE g
    IN  IF delete_vertices_ok(g1, delete_node_ids)
        THEN delete_vertices(g1, delete_node_ids) ELSE g1

\* The graphs delete_added_linking_edges may leave.
delete_added_linking_edges(g, orig_edges, orig_node, dest_edges, dest_node) ==
    {DeleteEdgesThenVertices(g, eo \cup ed,
         DeleteNodeIds(orig_edges, orig_node, dest_edges, dest_node)) :
       eo \in LinkEidChoices(g, orig_edges), ed \in LinkEidChoices(g, dest_edges)}

\* The integrity check of lines 355-358 passes.
CountsAsRecorded(g) == ECount(g) = ecount /\ VCount(g) = vcount

(***************************************************************************)
(* get_least_cost_path (lines 287-304) and the library's shortest-path     *)
(* search it calls: graph.get_shortest_paths(orig, to=dest, weights=w,     *)
(* mode=1 (OUT), output="epath").                                          *)
(***************************************************************************)
\* An edge weight field: <<"length">> or <<"nc", sen>> (the attribute nc_<sen>).
WeightFields == {<<"length">>} \cup {<<"nc", sen>> : sen \in Sens}

\* The value of weight field w on an edge, None when the edge has none.
EdgeWeight(edge, w) ==
    IF w[1] = "length" THEN edge.length
    ELSE IF edge.nc = None THEN None ELSE Some(edge.nc[w[2]])

\* A variant with mode=3 (ALL): an edge is traversed in either direction.
Arcs_ModeAll(g) ==
    {[e |-> e, from |-> Edge(g, e).source, to |-> Edge(g, e).target] : e \in EdgeIds(g)}
        \cup {[e |-> e, from |-> Edge(g, e).target, to |-> Edge(g, e).source] :
                  e \in EdgeIds(g)}

\* The steps the search may take: with mode=1 (OUT) an edge is traversed from
\* its source to its target only.
Arcs(g) ==
    {[e |-> e, from |-> Edge(g, e).source, to |-> Edge(g, e).target] : e \in EdgeIds(g)}

\* "Not reached" in a distance table.
Unreached == 0 - 1

\* The steps into v from a vertex the table dist has reached.
ArcsInto(g, dist, v) == {a \in Arcs(g) : a.to = v /\ dist[a.from] # Unreached}

\* One round of relaxation of the distance table dist.
Relax(g, w, dist) ==
    [v \in VertexIds(g) |->
        LET cands == {dist[a.from] + Val(EdgeWeight(Edge(g, a.e), w)) :
                         a \in ArcsInto(g, dist, v)}
                     \cup (IF dist[v] # Unreached THEN {dist[v]} ELSE {})
        IN  IF cands = {} THEN Unreached
            ELSE CHOOSE c \in cands : \A c2 \in cands : c <= c2]

RECURSIVE RelaxN(_, _, _, _)
RelaxN(g, w, dist, n) ==
    IF n = 0 THEN dist
    ELSE LET next == Relax(g, w, dist)
         IN  IF next = dist THEN dist ELSE RelaxN(g, w, next, n - 1)

\* The least cost from orig to every vertex (weights are not negative).
Distances(g, w, orig) ==
    RelaxN(g, w, [v \in VertexIds(g) |-> IF v = orig THEN 0 ELSE Unreached], VCount(g))

\* The edge paths of the search tree from orig to v: each step is one that gave
\* its target its least cost; at most n edges.
RECURSIVE TreePaths(_, _, _, _, _, _)
TreePaths(g, w, dist, orig, v, n) ==
    IF v = orig THEN {<<>>}
    ELSE IF n = 0 \/ dist[v] = Unreached THEN {}
    ELSE UNION {{Append(p, a.e) : p \in TreePaths(g, w, dist, orig, a.from, n - 1)} :
                  a \in {x \in ArcsInto(g, dist, v) :
                           dist[x.from] + Val(EdgeWeight(Edge(g, x.e), w)) = dist[v]}}

\* get_shortest_paths raises when a vertex id is not in the graph or an edge has
\* no number under the weight attribute.
get_shortest_paths_ok(g, orig, dest, w) ==
    /\ orig \in VertexIds(g)
    /\ dest \in VertexIds(g)
    /\ \A e \in EdgeIds(g) : EdgeWeight(Edge(g, e), w) # None

\* What get_shortest_paths(...)[0] may be: a least-cost edge path; the empty
\* list (with a warning, no exception) when dest cannot be reached.
get_shortest_paths(g, orig, dest, w) ==
    LET dist == Distances(g, w, orig)
    IN  IF dist[dest] = Unreached THEN {<<>>}
        ELSE TreePaths(g, w, dist, orig, dest, VCount(g))

\* A variant without the test orig_node != dest_node: the search always runs.
get_least_cost_path_NoGuard(g, orig_node, dest_node, weight) ==
    IF get_shortest_paths_ok(g, orig_node, dest_node, weight)
    THEN {[raised |-> FALSE, path |-> p, msg |-> "", searched |-> TRUE] :
            p \in get_shortest_paths(g, orig_node, dest_node, weight)}
    ELSE {[raised |-> TRUE, path |-> <<>>, msg |-> "Could not find paths",
           searched |-> TRUE]}

\* The outcomes of get_least_cost_path: a returned path or a raised message.
get_least_cost_path(g, orig_node, dest_node, weight) ==
    IF orig_node # dest_node
    THEN IF get_shortest_paths_ok(g, orig_node, dest_node, weight)
         THEN {[raised |-> FALSE, path |-> p, msg |-> "", searched |-> TRUE] :
                 p \in get_shortest_paths(g, orig_node, dest_node, weight)}
         ELSE {[raised |-> TRUE, path |-> <<>>, msg |-> "Could not find paths",
                searched |-> TRUE]}
    ELSE {[raised |-> TRUE, path |-> <<>>,
           msg |-> "Origin and destination are the same location", searched |-> FALSE]}

(***************************************************************************)
(* The graph after GraphHandler.__init__ (lines 33-58): the edges of the   *)
(* graph file, with the noise costs set and every AQI absent.              *)
(***************************************************************************)
\* The vertices lie on a line, 2.004 apart.
NodePos(i) == <<i * 2004, 0>>

\* The noise map of the file's edge s -> t: none on the edges towards lower ids
\* (outside the noise data), 1.0 at 70 dB on the others.
FileNoises(s, t) == IF s < t THEN Some(70 :> 1000) ELSE None

FileEdge(s, t) ==
    [source |-> s, target |-> t, uv |-> <<s, t>>,
     length |-> Some(GeomLength(<<NodePos(s), NodePos(t)>>)),
     noises |-> FileNoises(s, t), nc |-> None, aqi |-> None,
     geometry |-> <<NodePos(s), NodePos(t)>>]

FilePairs == {p \in (0 .. NumV - 1) \X (0 .. NumV - 1) : p[1] # p[2]}

\* The graphs a file may hold: NumV vertices and up to MaxE edges.
FileGraphs ==
    {[vs |-> [i \in 1 .. NumV |-> [geometry |-> NodePos(i - 1)]],
      es |-> [k \in 1 .. Len(ps) |-> FileEdge(ps[k][1], ps[k][2])]] :
        ps \in UNION {[1 .. m -> FilePairs] : m \in 0 .. MaxE}}

\* __init__: the noise costs are set, then every edge's AQI is set to None.
GraphHandlerInit(file_graph) ==
    LET g == set_noise_costs_to_edges(file_graph)
    IN  [g EXCEPT !.es = [k \in 1 .. Len(@) |-> [@[k] EXCEPT !.aqi = None]]]

(***************************************************************************)
(* One Path Finder at a time (specification Spec).  For the origin and for *)
(* the destination it may splice a new node into an edge of the edge table *)
(* (add_new_node_to_graph, then create_linking_edges_for_new_node), and it *)
(* ends with delete_added_linking_edges on the records it holds.           *)
(***************************************************************************)
Who == {"orig", "dest"}

IdlePF ==
    [stage |-> "idle",
     node |-> [w \in Who |-> None],
     edges |-> [w \in Who |-> None],
     split |-> [w \in Who |-> None],
     spliced |-> {}]

NoLcp == [called |-> FALSE]

NoReq == <<>>

NoUpd == <<>>

NoGone == <<>>

NoHar == <<>>

NoPna == <<>>

NoSer == <<>>

NoJob == <<>>

NoNear == <<>>

NoHnd == <<>>

\* The edges of the edge table (__get_edge_gdf): load-time edges with a line.
EdgeGdfIds(g) == {e \in EdgeIds(g) : e < ecount /\ IsLineString(Edge(g, e).geometry)}

\* Points on the two-point line geom, strictly between its ends.
PointsOn(geom) ==
    LET a == geom[1][1]
        b == geom[2][1]
    IN  {<<a + (IF b > a THEN d ELSE -d), geom[1][2]>> : d \in {d \in {501, 1503} : d < Abs(b - a)}}

\* No splice is half done: a new node without its linking edges.
NoneHalfDone == \A w \in Who : pf.node[w] # None => pf.edges[w] # None

InitSeq ==
    /\ graph \in {GraphHandlerInit(fg) : fg \in FileGraphs}
    /\ ecount = ECount(graph)
    /\ vcount = VCount(graph)
    /\ pf = IdlePF
    /\ pre = graph
    /\ lcp = NoLcp
    /\ req = NoReq
    /\ policy = "startup"
    /\ hnd = NoHnd
    /\ near = NoNear
    /\ job = NoJob
    /\ ser = NoSer
    /\ pna = NoPna
    /\ har = NoHar
    /\ gone = NoGone
    /\ upd = NoUpd

AddNewNode(w, e, point) ==
    /\ pf.node[w] = None
    /\ NoneHalfDone
    /\ graph' = add_new_node_to_graph(graph, point)
    /\ pf' = [pf EXCEPT !.stage = "splicing",
                        !.node[w] = [node |-> get_new_node_id(graph)],
                        !.split[w] = [edge |-> Edge(graph, e), point |-> point],
                        !.spliced = IF pf.stage = "splicing" THEN @ ELSE {}]
    /\ pre' = IF pf.stage = "splicing" THEN pre ELSE graph
    /\ UNCHANGED <<ecount, vcount, lcp, req, policy, hnd, near, job, ser, pna, har, gone, upd>>

CreateLinkingEdges(w) ==
    /\ pf.node[w] # None
    /\ pf.edges[w] = None
    /\ create_linking_edges_ok(graph, pf.node[w].node, pf.split[w].edge)
    /\ graph' = create_linking_edges_graph(graph, pf.node[w].node,
                    pf.split[w].point, pf.split[w].edge)
    /\ pf' = [pf EXCEPT !.edges[w] = create_linking_edges_record(graph,
                    pf.node[w].node, pf.split[w].point, pf.split[w].edge),
                        !.spliced = @ \cup {w}]
    /\ UNCHANGED <<ecount, vcount, pre, lcp, req, policy, hnd, near, job, ser, pna, har, gone, upd>>

DeleteAddedLinkingEdges ==
    /\ NoneHalfDone
    /\ graph' \in delete_added_linking_edges(graph, pf.edges["orig"], pf.node["orig"],
                      pf.edges["dest"], pf.node["dest"])
    /\ pf' = [IdlePF EXCEPT !.stage = "cleaned",
                            !.spliced = IF pf.stage = "splicing" THEN pf.spliced ELSE {}]
    /\ pre' = IF pf.stage = "splicing" THEN pre ELSE graph
    /\ UNCHANGED <<ecount, vcount, lcp, req, policy, hnd, near, job, ser, pna, har, gone, upd>>

NextSeq ==
    \/ \E w \in Who : \E e \in EdgeGdfIds(graph) :
          \E point \in PointsOn(Edge(graph, e).geometry) : AddNewNode(w, e, point)
    \/ \E w \in Who : CreateLinkingEdges(w)
    \/ DeleteAddedLinkingEdges

vars == <<graph, ecount, vcount, pf, pre, lcp, req, policy, hnd, near, job, ser, pna, har, gone, upd>>

Spec == InitSeq /\ [][NextSeq]_vars

(***************************************************************************)
(* Claims checked under Spec.                                              *)
(***************************************************************************)
\* Every vertex and edge of graph g0 is in g under the same id, unchanged.
Keeps(g, g0) ==
    /\ VCount(g) >= VCount(g0)
    /\ ECount(g) >= ECount(g0)
    /\ \A i \in VertexIds(g0) : Vertex(g, i) = Vertex(g0, i)
    /\ \A e \in EdgeIds(g0) : Edge(g, e) = Edge(g0, e)

\* C1: splice round trip.  Once delete_added_linking_edges has run on the
\* records of the splices made (for the origin, the destination or both), the
\* graph has the vertex and edge counts it had before the splices, and every
\* vertex and edge it had then keeps its id, endpoints and attribute values.
C1_SpliceRoundTrip ==
    pf.stage = "cleaned" =>
        /\ VCount(graph) = VCount(pre)
        /\ ECount(graph) = ECount(pre)
        /\ Keeps(graph, pre)

\* C1, the case: both the origin and the destination were spliced, then cleaned.
C1_Witness ==
    /\ pf.stage = "cleaned"
    /\ pf.spliced = Who
    /\ ECount(graph) > 0
    /\ graph = pre

(***************************************************************************)
(* get_least_cost_path on a live graph (specification SpecPath).  The      *)
(* graph is any graph of NumV vertices and up to MaxE edges, each edge     *)
(* short and loud or long and quiet; the call is made with any two node    *)
(* ids, among them one that is not in the graph, and any weight field.     *)
(***************************************************************************)
EdgeKinds == {"short_loud", "long_quiet"}

\* short_loud: 1.0 long, all of it at 70 dB; long_quiet: 1.5 long, all at 40 dB.
KindEdge(s, t, kind) ==
    [source |-> s, target |-> t, uv |-> <<s, t>>,
     length |-> IF kind = "short_loud" THEN Some(1000) ELSE Some(1500),
     noises |-> IF kind = "short_loud" THEN Some(70 :> 1000) ELSE Some(40 :> 1500),
     nc |-> None, aqi |-> None,
     geometry |-> <<NodePos(s), NodePos(t)>>]

\* A rank of the edge choices: the search does not depend on the order of the
\* edges in the file, so the edge lists are taken in rank order only.
KindRank(c) == (c[1][1] * NumV + c[1][2]) * 2 + (IF c[2] = "short_loud" THEN 0 ELSE 1)

KindLists ==
    {ps \in UNION {[1 .. m -> FilePairs \X EdgeKinds] : m \in 0 .. MaxE} :
        \A k \in 1 .. Len(ps) - 1 : KindRank(ps[k]) <= KindRank(ps[k + 1])}

KindGraphs ==
    {[vs |-> [i \in 1 .. NumV |-> [geometry |-> NodePos(i - 1)]],
      es |-> [k \in 1 .. Len(ps) |-> KindEdge(ps[k][1][1], ps[k][1][2], ps[k][2])]] :
        ps \in KindLists}

InitPath ==
    /\ graph \in {GraphHandlerInit(fg) : fg \in KindGraphs}
    /\ ecount = ECount(graph)
    /\ vcount = VCount(graph)
    /\ pf = IdlePF
    /\ pre = graph
    /\ lcp = NoLcp
    /\ req = NoReq
    /\ policy = "startup"
    /\ hnd = NoHnd
    /\ near = NoNear
    /\ job = NoJob
    /\ ser = NoSer
    /\ pna = NoPna
    /\ har = NoHar
    /\ gone = NoGone
    /\ upd = NoUpd

GetLeastCostPath(orig_node, dest_node, weight) ==
    /\ ~lcp.called
    /\ \E out \in get_least_cost_path(graph, orig_node, dest_node, weight) :
          lcp' = [called |-> TRUE, orig |-> orig_node, dest |-> dest_node,
                  weight |-> weight, out |-> out]
    /\ pre' = graph
    /\ UNCHANGED <<graph, ecount, vcount, pf, req, policy, hnd, near, job, ser, pna, har, gone, upd>>

\* The caller has taken the outcome; the next call can be made.
TakeLeastCostPath ==
    /\ lcp.called
    /\ lcp' = NoLcp
    /\ UNCHANGED <<graph, ecount, vcount, pf, pre, req, policy, hnd, near, job, ser, pna, har, gone, upd>>

NextPath ==
    \/ \E orig_node, dest_node \in 0 .. NumV : \E weight \in WeightFields :
          GetLeastCostPath(orig_node, dest_node, weight)
    \/ TakeLeastCostPath

SpecPath == InitPath /\ [][NextPath]_vars

\* The edge sequences of g with at most n edges.
EdgeSeqs(g, n) == UNION {[1 .. m -> EdgeIds(g)] : m \in 0 .. n}

\* p is a directed path of g from orig to dest: it leaves orig, each edge ends
\* where the next begins, and it enters dest.
IsDirectedPath(g, p, orig, dest) ==
    /\ Len(p) >= 1
    /\ Edge(g, p[1]).source = orig
    /\ \A k \in 1 .. Len(p) - 1 : Edge(g, p[k]).target = Edge(g, p[k + 1]).source
    /\ Edge(g, p[Len(p)]).target = dest

PathCost(g, p, w) == SumSeq([k \in 1 .. Len(p) |-> Val(EdgeWeight(Edge(g, p[k]), w))])

\* The directed paths from orig to dest that pass no vertex twice have at most
\* VCount(g) - 1 edges; a least-cost path is among them (no weight is negative).
DirectedPaths(g, orig, dest) ==
    {p \in EdgeSeqs(g, VCount(g)) : IsDirectedPath(g, p, orig, dest)}

\* C4: get_least_cost_path(n, n, weight) raises 'Origin and destination are the
\* same location' for every node id n and every weight field, runs no search
\* and leaves the graph as it was.
C4_SameLocationGuard ==
    (lcp.called /\ lcp.orig = lcp.dest) =>
        /\ lcp.out.raised
        /\ lcp.out.msg = "Origin and destination are the same location"
        /\ ~lcp.out.searched
        /\ graph = pre

\* C4, the case: the call was made with one node id of the graph for both.
C4_Witness ==
    /\ lcp.called
    /\ lcp.orig = lcp.dest
    /\ lcp.orig \in VertexIds(graph)
    /\ lcp.weight # <<"length">>
    /\ lcp.out.raised

\* C5 as claimed: for distinct origin and destination the call raises 'Could not
\* find paths' whenever the destination cannot be reached along directed edges
\* or a node id is not in the graph; it returns no path then.
C5_NotFoundRaised ==
    (/\ lcp.called
     /\ lcp.orig # lcp.dest
     /\ \/ lcp.orig \notin VertexIds(graph)
        \/ lcp.dest \notin VertexIds(graph)
        \/ DirectedPaths(graph, lcp.orig, lcp.dest) = {})
    => (lcp.out.raised /\ lcp.out.msg = "Could not find paths")

\* C6: for distinct origin and destination with the destination reachable, the
\* call returns an edge-id sequence that is a directed path from the origin to
\* the destination of least total weight, under the chosen weight field, among
\* all directed paths of the live graph.
C6_LeastCostDirectedPath ==
    (/\ lcp.called
     /\ lcp.orig # lcp.dest
     /\ lcp.orig \in VertexIds(graph)
     /\ lcp.dest \in VertexIds(graph)
     /\ DirectedPaths(graph, lcp.orig, lcp.dest) # {})
    => /\ ~lcp.out.raised
       /\ IsDirectedPath(graph, lcp.out.path, lcp.orig, lcp.dest)
       /\ \A p \in DirectedPaths(graph, lcp.orig, lcp.dest) :
             PathCost(graph, lcp.out.path, lcp.weight) <= PathCost(graph, p, lcp.weight)

\* C6, the case: a path of two edges was returned where a costlier path exists.
C6_Witness ==
    /\ lcp.called
    /\ ~lcp.out.raised
    /\ Len(lcp.out.path) >= 1
    /\ lcp.weight = <<"nc", 20>>
    /\ \E p \in DirectedPaths(graph, lcp.orig, lcp.dest) :
          PathCost(graph, p, lcp.weight) > PathCost(graph, lcp.out.path, lcp.weight)

(***************************************************************************)
(* Several requests on the one shared graph (specification SpecConc).      *)
(* The server handles requests in threads; nothing in the handler or the   *)
(* graph handler takes a lock, so the steps of the requests interleave.    *)
(* Each request splices its origin into an edge of the edge table          *)
(* (get_new_node_id, add_vertex, create_linking_edges_for_new_node),       *)
(* searches, and cleans up with the records it holds.                      *)
(***************************************************************************)
Requests == 1 .. NumReq

\* The graph file: a two-way street between vertices 0 and 1.
StreetGraph ==
    [vs |-> [i \in 1 .. NumV |-> [geometry |-> NodePos(i - 1)]],
     es |-> <<FileEdge(0, 1), FileEdge(1, 0)>>]

NewRequest ==
    [pc |-> "start", new_node_id |-> 0, edge |-> None, point |-> None,
     node |-> None, edges |-> None, found |-> FALSE]

InitConc ==
    /\ graph = GraphHandlerInit(StreetGraph)
    /\ ecount = ECount(graph)
    /\ vcount = VCount(graph)
    /\ pf = IdlePF
    /\ pre = graph
    /\ lcp = NoLcp
    /\ req = [r \in Requests |-> NewRequest]
    /\ policy = "startup"
    /\ hnd = NoHnd
    /\ near = NoNear
    /\ job = NoJob
    /\ ser = NoSer
    /\ pna = NoPna
    /\ har = NoHar
    /\ gone = NoGone
    /\ upd = NoUpd

\* find_nearest_edge has given the parent edge; add_new_node_to_graph reads the
\* id of the node it is about to add (line 199).
ReqGetNewNodeId(r, e, point) ==
    /\ req[r].pc = "start"
    /\ req' = [req EXCEPT ![r].pc = "got_id",
                          ![r].edge = Edge(graph, e),
                          ![r].point = point,
                          ![r].new_node_id = get_new_node_id(graph)]
    /\ UNCHANGED <<graph, ecount, vcount, pf, pre, lcp, policy, hnd, near, job, ser, pna, har, gone, upd>>

\* add_new_node_to_graph adds the vertex and returns the id it read (lines 200-202).
ReqAddVertex(r) ==
    /\ req[r].pc = "got_id"
    /\ graph' = add_vertex(graph, req[r].point)
    /\ req' = [req EXCEPT ![r].pc = "added",
                          ![r].node = [node |-> req[r].new_node_id]]
    /\ UNCHANGED <<ecount, vcount, pf, pre, lcp, policy, hnd, near, job, ser, pna, har, gone, upd>>

\* create_linking_edges_for_new_node; when it raises, the request holds no
\* record of linking edges and goes on to its cleanup.
ReqCreateLinkingEdges(r) ==
    /\ req[r].pc = "added"
    /\ IF create_linking_edges_ok(graph, req[r].node.node, req[r].edge)
       THEN /\ graph' = create_linking_edges_graph(graph, req[r].node.node,
                            req[r].point, req[r].edge)
            /\ req' = [req EXCEPT ![r].pc = "linked",
                                  ![r].edges = create_linking_edges_record(graph,
                                      req[r].node.node, req[r].point, req[r].edge)]
       ELSE /\ graph' = graph
            /\ req' = [req EXCEPT ![r].pc = "failed"]
    /\ UNCHANGED <<ecount, vcount, pf, pre, lcp, policy, hnd, near, job, ser, pna, har, gone, upd>>

\* The search from the new node to the far end of the parent edge.
ReqGetLeastCostPath(r) ==
    /\ req[r].pc = "linked"
    /\ \E out \in get_least_cost_path(graph, req[r].node.node, req[r].edge.uv[2],
                                     <<"length">>) :
          req' = [req EXCEPT ![r].pc = "searched", ![r].found = ~out.raised]
    /\ UNCHANGED <<graph, ecount, vcount, pf, pre, lcp, policy, hnd, near, job, ser, pna, har, gone, upd>>

\* delete_added_graph_features: delete_added_linking_edges with the records held.
ReqDeleteAddedLinkingEdges(r) ==
    /\ req[r].pc \in {"searched", "failed"}
    /\ graph' \in delete_added_linking_edges(graph, req[r].edges, req[r].node, None, None)
    /\ req' = [req EXCEPT ![r].pc = "done"]
    /\ UNCHANGED <<ecount, vcount, pf, pre, lcp, policy, hnd, near, job, ser, pna, har, gone, upd>>

NextConc ==
    \E r \in Requests :
        \/ \E e \in EdgeGdfIds(graph) :
              \E point \in PointsOn(Edge(graph, e).geometry) : ReqGetNewNodeId(r, e, point)
        \/ ReqAddVertex(r)
        \/ ReqCreateLinkingEdges(r)
        \/ ReqGetLeastCostPath(r)
        \/ ReqDeleteAddedLinkingEdges(r)

SpecConc == InitConc /\ [][NextConc]_vars

AllDone == \A r \in Requests : req[r].pc = "done"

\* C2 as claimed: once every request has finished its cleanup, the live vertex
\* and edge counts equal the recorded vcount and ecount, whatever the
\* interleaving of the requests' steps was.
C2_CleanAfterAllRequests == AllDone => CountsAsRecorded(graph)

(***************************************************************************)
(* The noise-cost policy on the edges of a graph file (specification       *)
(* SpecNoise).  The file's edges have a length, possibly a noise map and   *)
(* possibly a line geometry, and no noise cost yet.  The policy is applied *)
(* by GraphHandler.__init__ and once more when the service starts.         *)
(***************************************************************************)
NoiseFileLengths == {1000, 2506}

\* The noise maps an edge of the given length may have in the file: none, an
\* empty one, one short of the length, one covering the length.
NoiseFileMaps(length) ==
    {None, Some(<<>>), Some(55 :> 400), Some(55 :> 300 @@ 70 :> length - 300)}

NoiseFileGeoms(length) == {None, << <<0, 0>>, <<length, 0>> >>}

NoiseFileEdges ==
    {[source |-> 0, target |-> 1, uv |-> <<0, 1>>, length |-> Some(length),
      noises |-> noises, nc |-> None, aqi |-> None, geometry |-> geom] :
        <<length, noises, geom>> \in
            UNION {{length} \X NoiseFileMaps(length) \X NoiseFileGeoms(length) :
                      length \in NoiseFileLengths}}

NoiseFileGraphs ==
    {[vs |-> [i \in 1 .. NumV |-> [geometry |-> NodePos(i - 1)]], es |-> es] :
        es \in UNION {[1 .. m -> NoiseFileEdges] : m \in 1 .. MaxE}}

InitNoise ==
    /\ graph \in NoiseFileGraphs
    /\ ecount = ECount(graph)
    /\ vcount = VCount(graph)
    /\ pf = IdlePF
    /\ pre = graph
    /\ lcp = NoLcp
    /\ req = NoReq
    /\ policy = "file"
    /\ hnd = NoHnd
    /\ near = NoNear
    /\ job = NoJob
    /\ ser = NoSer
    /\ pna = NoPna
    /\ har = NoHar
    /\ gone = NoGone
    /\ upd = NoUpd

\* GraphHandler.__init__, line 56.
SetNoiseCostsAtInit ==
    /\ policy = "file"
    /\ graph' = set_noise_costs_to_edges(graph)
    /\ policy' = "init"
    /\ UNCHANGED <<ecount, vcount, pf, pre, lcp, req, hnd, near, job, ser, pna, har, gone, upd>>

\* The service's start: G.set_noise_costs_to_edges() after the construction.
SetNoiseCostsAtStartup ==
    /\ policy = "init"
    /\ graph' = set_noise_costs_to_edges(graph)
    /\ policy' = "startup"
    /\ UNCHANGED <<ecount, vcount, pf, pre, lcp, req, hnd, near, job, ser, pna, har, gone, upd>>

NextNoise == SetNoiseCostsAtInit \/ SetNoiseCostsAtStartup

SpecNoise == InitNoise /\ [][NextNoise]_vars

\* The three cases of the penalty partition, read off the edge as the file has it.
CaseNoiseMap(raw) == HasNoises(raw.noises)
CaseNoData(raw) == ~HasNoises(raw.noises) /\ IsLineString(raw.geometry)
CaseNoGeometry(raw) == ~IsLineString(raw.geometry)

\* The number of the given truth values that are TRUE.
CountTrue(bs) == Cardinality({i \in DOMAIN bs : bs[i]})

\* nc_s = round(length + sum over the bands of exposure x band cost x s, 2)
ValueNoiseMap(e) ==
    \A sen \in Sens :
        e.nc[sen] = Round2Frac(Val(e.length) * 100
                        + SumFun([b \in DOMAIN Val(e.noises) |->
                                    Val(e.noises)[b] * db_costs[b] * sen],
                                 DOMAIN Val(e.noises)), 100)

\* noise cost = length x 20, so nc_s = round(length + length x 20, 2)
ValueNoData(e) == \A sen \in Sens : e.nc[sen] = Round2(Val(e.length) + Val(e.length) * 20)

\* noise cost = 0, so nc_s = round(length, 2)
ValueNoGeometry(e) == \A sen \in Sens : e.nc[sen] = Round2(Val(e.length))

PolicyApplied == policy \in {"init", "startup"}

\* C9 as claimed: after the policy is applied every edge is in exactly one of
\* (a) non-empty noise map, (b) no noise map and a valid line, (c) no valid
\* line, and its noise costs are those of its case.
C9_PartitionAsClaimed ==
    PolicyApplied =>
        \A k \in 1 .. Len(graph.es) :
            LET raw == pre.es[k]
                e == graph.es[k]
            IN  /\ CountTrue(<<CaseNoiseMap(raw), CaseNoData(raw), CaseNoGeometry(raw)>>) = 1
                /\ CaseNoiseMap(raw) => ValueNoiseMap(e)
                /\ CaseNoData(raw) => ValueNoData(e)
                /\ CaseNoGeometry(raw) => ValueNoGeometry(e)

\* C9 amended: after the policy is applied every edge is in exactly one of
\* (a) non-empty noise map and a valid line, (b) no noise map and a valid line,
\* (c) no valid line, whatever its noise map, and its noise costs are those of
\* its case.
C9_PenaltyPartition ==
    PolicyApplied =>
        \A k \in 1 .. Len(graph.es) :
            LET raw == pre.es[k]
                e == graph.es[k]
                a == CaseNoiseMap(raw) /\ IsLineString(raw.geometry)
            IN  /\ CountTrue(<<a, CaseNoData(raw), CaseNoGeometry(raw)>>) = 1
                /\ a => ValueNoiseMap(e)
                /\ CaseNoData(raw) => ValueNoData(e)
                /\ CaseNoGeometry(raw) => ValueNoGeometry(e)

\* The policy has been applied to a graph with an edge that has a noise map
\* and no line, and an edge that has a noise map and a line.
C9_Witness ==
    /\ PolicyApplied
    /\ \E k \in 1 .. Len(pre.es) :
          /\ CaseNoiseMap(pre.es[k]) /\ CaseNoGeometry(pre.es[k])
          /\ ValueNoGeometry(graph.es[k])
    /\ \E k \in 1 .. Len(pre.es) :
          /\ CaseNoiseMap(pre.es[k]) /\ IsLineString(pre.es[k].geometry)
          /\ ValueNoiseMap(graph.es[k])
          /\ ~ValueNoGeometry(graph.es[k])

(***************************************************************************)
(* The /quietpaths handler (green_paths_app.py, lines 48-70), one          *)
(* invocation per request (specification SpecHandler).  The three Path     *)
(* Finder steps run inside try; except Exception turns the exception into  *)
(* the error response; finally runs delete_added_graph_features() and      *)
(* returns the error if there is one; otherwise the paths are returned.    *)
(***************************************************************************)
\* The messages the Path Finder and get_least_cost_path raise on purpose.
OriginDestMessages == {"Origin not found", "Destination not found"}
LeastCostPathMessages ==
    {"Could not find paths", "Origin and destination are the same location"}
PrettyMessages == OriginDestMessages \cup LeastCostPathMessages

\* The text of an exception nobody raised on purpose, such as the TypeError of
\* round(None, 2) in PathNoiseAttrs.get_noise_props_dict.
InternalMessages == {"type NoneType doesn't define __round__ method"}

\* What a step may raise.
StepRaises(step) ==
    (CASE step = "find_origin_dest_nodes" -> OriginDestMessages
       [] step = "find_least_cost_paths" -> LeastCostPathMessages
       [] step = "process_paths_to_FC" -> {})
        \cup InternalMessages

\* The step after a completed step of the try block.
StepAfter(step) ==
    CASE step = "find_origin_dest_nodes" -> "find_least_cost_paths"
      [] step = "find_least_cost_paths" -> "process_paths_to_FC"
      [] step = "process_paths_to_FC" -> "finally"

TrySteps == {"find_origin_dest_nodes", "find_least_cost_paths", "process_paths_to_FC"}

\* error = None; path_finder = PathFinder(...)
NewHandler ==
    [pc |-> "find_origin_dest_nodes", completed |-> {}, exc |-> None, error |-> None,
     path_FC |-> None, edge_FC |-> None, cleanups |-> 0, response |-> None]

InitHandler ==
    /\ graph = GraphHandlerInit(StreetGraph)
    /\ ecount = ECount(graph)
    /\ vcount = VCount(graph)
    /\ pf = IdlePF
    /\ pre = graph
    /\ lcp = NoLcp
    /\ req = NoReq
    /\ policy = "startup"
    /\ hnd = [r \in Requests |-> NewHandler]
    /\ near = NoNear
    /\ job = NoJob
    /\ ser = NoSer
    /\ pna = NoPna
    /\ har = NoHar
    /\ gone = NoGone
    /\ upd = NoUpd

\* A step of the try block completes (lines 55-57).
StepCompletes(r) ==
    /\ hnd[r].pc \in TrySteps
    /\ hnd' = [hnd EXCEPT
                  ![r].pc = StepAfter(hnd[r].pc),
                  ![r].completed = @ \cup {hnd[r].pc},
                  ![r].path_FC = IF hnd[r].pc = "process_paths_to_FC"
                                 THEN Some("path_FC") ELSE @,
                  ![r].edge_FC = IF hnd[r].pc = "process_paths_to_FC"
                                 THEN Some("edge_FC") ELSE @]
    /\ UNCHANGED <<graph, ecount, vcount, pf, pre, lcp, req, policy, near, job, ser, pna, har, gone, upd>>

\* A step of the try block raises an Exception with the given text.
StepRaisesException(r, text) ==
    /\ hnd[r].pc \in TrySteps
    /\ text \in StepRaises(hnd[r].pc)
    /\ hnd' = [hnd EXCEPT ![r].pc = "except", ![r].exc = Some(text)]
    /\ UNCHANGED <<graph, ecount, vcount, pf, pre, lcp, req, policy, near, job, ser, pna, har, gone, upd>>

\* jsonify({'error': str(e)})
ErrorResponse(e) == [error |-> e]

\* except Exception as e: error = jsonify({'error': str(e)})  (lines 59-61)
ExceptException(r) ==
    /\ hnd[r].pc = "except"
    /\ hnd' = [hnd EXCEPT ![r].pc = "finally",
                          ![r].error = Some(ErrorResponse(Val(hnd[r].exc)))]
    /\ UNCHANGED <<graph, ecount, vcount, pf, pre, lcp, req, policy, near, job, ser, pna, har, gone, upd>>

\* A variant that cleans up only when the try block ended without an error.
FinallyCleanups_OnSuccessOnly(h) == IF h.error = None THEN h.cleanups + 1 ELSE h.cleanups

\* The runs of delete_added_graph_features() after the finally block's one.
FinallyCleanups(h) == h.cleanups + 1

\* finally: path_finder.delete_added_graph_features()  (lines 63-65)
FinallyDeleteAddedGraphFeatures(r) ==
    /\ hnd[r].pc = "finally"
    /\ hnd' = [hnd EXCEPT ![r].pc = "return", ![r].cleanups = FinallyCleanups(hnd[r])]
    /\ UNCHANGED <<graph, ecount, vcount, pf, pre, lcp, req, policy, near, job, ser, pna, har, gone, upd>>

\* A variant without the return inside finally.
HandlerResponse_NoReturnInFinally(h) == [path_FC |-> h.path_FC, edge_FC |-> h.edge_FC]

\* if (error is not None): return error; else the return of line 70.
HandlerResponse(h) ==
    IF h.error # None THEN Val(h.error)
    ELSE [path_FC |-> h.path_FC, edge_FC |-> h.edge_FC]

ReturnResponse(r) ==
    /\ hnd[r].pc = "return"
    /\ hnd' = [hnd EXCEPT ![r].pc = "returned",
                          ![r].response = Some(HandlerResponse(hnd[r]))]
    /\ UNCHANGED <<graph, ecount, vcount, pf, pre, lcp, req, policy, near, job, ser, pna, har, gone, upd>>

NextHandler ==
    \E r \in Requests :
        \/ StepCompletes(r)
        \/ \E text \in PrettyMessages \cup InternalMessages : StepRaisesException(r, text)
        \/ ExceptException(r)
        \/ FinallyDeleteAddedGraphFeatures(r)
        \/ ReturnResponse(r)

SpecHandler == InitHandler /\ [][NextHandler]_vars

\* C3: on every exit path of the handler (all steps succeed, a step raises an
\* expected error, a step fails unexpectedly) delete_added_graph_features()
\* has run exactly once when the response is returned, and never more than once.
C3_CleanupOnceBeforeResponse ==
    \A r \in DOMAIN hnd :
        /\ hnd[r].cleanups <= 1
        /\ (hnd[r].response # None \/ hnd[r].pc \in {"return", "returned"})
               => hnd[r].cleanups = 1

\* One request has returned its paths and another the error of an unexpected
\* failure in process_paths_to_FC, each after its one cleanup.
C3_Witness ==
    \E r1, r2 \in DOMAIN hnd :
        /\ hnd[r1].pc = "returned" /\ hnd[r1].completed = TrySteps
        /\ hnd[r1].cleanups = 1
        /\ hnd[r2].pc = "returned" /\ hnd[r2].exc # None
        /\ Val(hnd[r2].exc) \in InternalMessages
        /\ hnd[r2].completed = {"find_origin_dest_nodes", "find_least_cost_paths"}
        /\ hnd[r2].cleanups = 1

\* C7: the response is {path_FC, edge_FC} when the three steps all completed
\* and {error: the raised message} when one of them raised, never the other
\* way round.
C7_ResponseShape ==
    \A r \in DOMAIN hnd :
        hnd[r].response # None =>
            IF hnd[r].completed = TrySteps
            THEN /\ hnd[r].exc = None
                 /\ Val(hnd[r].response) = [path_FC |-> Some("path_FC"),
                                            edge_FC |-> Some("edge_FC")]
            ELSE /\ hnd[r].exc # None
                 /\ Val(hnd[r].response) = [error |-> Val(hnd[r].exc)]

\* One request has returned the paths and another the message of an expected
\* error.
C7_Witness ==
    \E r1, r2 \in DOMAIN hnd :
        /\ hnd[r1].response = Some([path_FC |-> Some("path_FC"), edge_FC |-> Some("edge_FC")])
        /\ hnd[r2].response = Some([error |-> "Could not find paths"])
        /\ hnd[r2].completed = {"find_origin_dest_nodes"}

\* C8 as claimed: every error text in a response is one of the Path Finder's
\* own messages.
C8_OnlyPrettyMessages ==
    \A r \in DOMAIN hnd :
        (hnd[r].response # None /\ "error" \in DOMAIN Val(hnd[r].response))
            => Val(hnd[r].response).error \in PrettyMessages

(***************************************************************************)
(* The expanding-radius searches find_nearest_node (lines 106-131) and     *)
(* find_nearest_edge (lines 150-168), one loop iteration per step          *)
(* (specification SpecNearest).  Here coordinates are whole metres and     *)
(* every edge is a straight segment parallel to an axis, so that distances *)
(* compare exactly by their squares.                                       *)
(***************************************************************************)
NodeRadii == <<50, 100, 500>>
EdgeRadii == <<35, 150, 400, 650>>

\* point.buffer(radius).bounds
BufferBounds(point, radius) ==
    [minx |-> point[1] - radius, miny |-> point[2] - radius,
     maxx |-> point[1] + radius, maxy |-> point[2] + radius]

\* The bounding box of a point or of a line.
GeomBounds(coords) ==
    LET xs == {coords[i][1] : i \in DOMAIN coords}
        ys == {coords[i][2] : i \in DOMAIN coords}
    IN  [minx |-> CHOOSE x \in xs : \A x2 \in xs : x <= x2,
         miny |-> CHOOSE y \in ys : \A y2 \in ys : y <= y2,
         maxx |-> CHOOSE x \in xs : \A x2 \in xs : x >= x2,
         maxy |-> CHOOSE y \in ys : \A y2 \in ys : y >= y2]

BoundsIntersect(a, b) ==
    /\ a.minx <= b.maxx /\ b.minx <= a.maxx
    /\ a.miny <= b.maxy /\ b.miny <= a.maxy

\* node_gdf.sindex.intersection(bounds): the nodes in the box.
NodeMatches(g, point, radius) ==
    {v \in VertexIds(g) :
        BoundsIntersect(GeomBounds(<<Vertex(g, v).geometry>>), BufferBounds(point, radius))}

\* edge_gdf.sindex.intersection(bounds): the edges of the edge table whose
\* bounding box meets the box.
EdgeMatches(g, point, radius) ==
    {e \in EdgeGdfIds(g) :
        BoundsIntersect(GeomBounds(Edge(g, e).geometry), BufferBounds(point, radius))}

\* The square of the distance between two points.
PointDist2(p, q) == (p[1] - q[1]) * (p[1] - q[1]) + (p[2] - q[2]) * (p[2] - q[2])

\* The square of geom.distance(point), for a segment parallel to an axis: the
\* nearest point of the segment is the point clamped to the segment's box.
GeomDist2(geom, point) ==
    LET b == GeomBounds(geom)
        x == IF point[1] < b.minx THEN b.minx
             ELSE IF point[1] > b.maxx THEN b.maxx ELSE point[1]
        y == IF point[2] < b.miny THEN b.miny
             ELSE IF point[2] > b.maxy THEN b.maxy ELSE point[2]
    IN  PointDist2(<<x, y>>, point)

\* possible_matches['distance'].min(), squared.
ShortestDist2(g, matches, point) ==
    LET ds == {GeomDist2(Edge(g, e).geometry, point) : e \in matches}
    IN  CHOOSE d \in ds : \A d2 \in ds : d <= d2

\* A variant that stops as soon as a radius has candidates.
EdgeLoopBreaks_AnyCandidate(g, matches, point, radius) == matches # {}

\* The break of the loop of find_nearest_edge (lines 156-161).
EdgeLoopBreaks(g, matches, point, radius) ==
    /\ matches # {}
    /\ ShortestDist2(g, matches, point) < radius * radius

\* The break of the loop of find_nearest_node (lines 119-120).
NodeLoopBreaks(g, matches, point, radius) == matches # {}

\* The nodes of matches nearest to point (nearest_points, geom_equals).
NearestNodes(g, matches, point) ==
    {v \in matches :
        \A v2 \in matches :
            PointDist2(Vertex(g, v).geometry, point) <= PointDist2(Vertex(g, v2).geometry, point)}

\* The edges of matches at the shortest distance.
NearestEdges(g, matches, point) ==
    {e \in matches : GeomDist2(Edge(g, e).geometry, point) = ShortestDist2(g, matches, point)}

\* The graph files of this specification: the vertices are the corners of a
\* staircase of streets, 200 m along x and 95 m along y in turn; up to MaxE
\* edges, each between neighbouring corners.
NearPos(i) == <<200 * ((i + 1) \div 2), 0 - 95 * (i \div 2)>>

NearFileEdge(s, t) ==
    [FileEdge(s, t) EXCEPT
        !.geometry = <<NearPos(s), NearPos(t)>>,
        !.length = Some(1000 * (Abs(NearPos(s)[1] - NearPos(t)[1])
                                  + Abs(NearPos(s)[2] - NearPos(t)[2])))]

NearPairs == {p \in FilePairs : Abs(p[1] - p[2]) = 1}

NearFileGraphs ==
    {[vs |-> [i \in 1 .. NumV |-> [geometry |-> NearPos(i - 1)]],
      es |-> [k \in 1 .. Len(ps) |-> NearFileEdge(ps[k][1], ps[k][2])]] :
        ps \in UNION {[1 .. m -> NearPairs] : m \in 0 .. MaxE}}

\* The points asked about.
QueryPoints ==
    ({0 - 640, 0 - 30, 80, 150} \X {0, 30, 120, 450, 640, 700}) \cup {<<95, 0 - 95>>}

IdleNear ==
    [pc |-> "idle", fn |-> "", point |-> None, i |-> 0, queried |-> <<>>,
     matches |-> {}, result |-> None]

InitNearest ==
    /\ graph \in {GraphHandlerInit(fg) : fg \in NearFileGraphs}
    /\ ecount = ECount(graph)
    /\ vcount = VCount(graph)
    /\ pf = IdlePF
    /\ pre = graph
    /\ lcp = NoLcp
    /\ req = NoReq
    /\ policy = "startup"
    /\ hnd = NoHnd
    /\ near = IdleNear
    /\ job = NoJob
    /\ ser = NoSer
    /\ pna = NoPna
    /\ har = NoHar
    /\ gone = NoGone
    /\ upd = NoUpd

\* find_nearest_node(point) / find_nearest_edge(point) is called.
FindNearestBegin(fn, point) ==
    /\ near.pc = "idle"
    /\ near' = [IdleNear EXCEPT !.pc = "loop", !.fn = fn, !.point = point, !.i = 1]
    /\ UNCHANGED <<graph, ecount, vcount, pf, pre, lcp, req, policy, hnd, job, ser, pna, har, gone, upd>>

\* One iteration of the loop of find_nearest_node (lines 117-120).
FindNearestNodeLoop ==
    /\ near.pc = "loop" /\ near.fn = "node"
    /\ LET radius == NodeRadii[near.i]
           possible_matches_index == NodeMatches(graph, near.point, radius)
       IN  near' = [near EXCEPT
                       !.queried = Append(@, radius),
                       !.matches = possible_matches_index,
                       !.i = @ + 1,
                       !.pc = IF NodeLoopBreaks(graph, possible_matches_index,
                                                near.point, radius)
                                 \/ near.i = Len(NodeRadii)
                              THEN "after" ELSE "loop"]
    /\ UNCHANGED <<graph, ecount, vcount, pf, pre, lcp, req, policy, hnd, job, ser, pna, har, gone, upd>>

\* After the loop of find_nearest_node (lines 121-131).
FindNearestNodeReturn ==
    /\ near.pc = "after" /\ near.fn = "node"
    /\ IF near.matches = {}
       THEN near' = [near EXCEPT !.pc = "done", !.result = None]
       ELSE \E nearest_node_id \in NearestNodes(graph, near.matches, near.point) :
               near' = [near EXCEPT !.pc = "done", !.result = Some(nearest_node_id)]
    /\ UNCHANGED <<graph, ecount, vcount, pf, pre, lcp, req, policy, hnd, job, ser, pna, har, gone, upd>>

\* One iteration of the loop of find_nearest_edge (lines 154-161).
FindNearestEdgeLoop ==
    /\ near.pc = "loop" /\ near.fn = "edge"
    /\ LET radius == EdgeRadii[near.i]
           possible_matches_index == EdgeMatches(graph, near.point, radius)
       IN  near' = [near EXCEPT
                       !.queried = Append(@, radius),
                       !.matches = possible_matches_index,
                       !.i = @ + 1,
                       !.pc = IF EdgeLoopBreaks(graph, possible_matches_index,
                                                near.point, radius)
                                 \/ near.i = Len(EdgeRadii)
                              THEN "after" ELSE "loop"]
    /\ UNCHANGED <<graph, ecount, vcount, pf, pre, lcp, req, policy, hnd, job, ser, pna, har, gone, upd>>

\* After the loop of find_nearest_edge (lines 162-168): the edge id is the
\* first of the nearest in the order the index gave them, which is any of them.
FindNearestEdgeReturn ==
    /\ near.pc = "after" /\ near.fn = "edge"
    /\ IF near.matches = {}
       THEN near' = [near EXCEPT !.pc = "done", !.result = None]
       ELSE \E edge_id \in NearestEdges(graph, near.matches, near.point) :
               near' = [near EXCEPT !.pc = "done", !.result = Some(Edge(graph, edge_id))]
    /\ UNCHANGED <<graph, ecount, vcount, pf, pre, lcp, req, policy, hnd, job, ser, pna, har, gone, upd>>

NextNearest ==
    \/ \E fn \in {"node", "edge"}, point \in QueryPoints : FindNearestBegin(fn, point)
    \/ FindNearestNodeLoop
    \/ FindNearestNodeReturn
    \/ FindNearestEdgeLoop
    \/ FindNearestEdgeReturn

SpecNearest == InitNearest /\ [][NextNearest]_vars

\* The radius list of the search in progress.
RadiiOf(fn) == IF fn = "node" THEN NodeRadii ELSE EdgeRadii

\* The stopping condition of the claim at a radius: for a node, some node in
\* the queried box; for an edge, some edge of the edge table in the queried
\* box and the least true distance to one of them strictly less than the radius.
StopsAt(fn, point, radius) ==
    IF fn = "node"
    THEN \E v \in VertexIds(graph) :
            /\ Abs(Vertex(graph, v).geometry[1] - point[1]) <= radius
            /\ Abs(Vertex(graph, v).geometry[2] - point[2]) <= radius
    ELSE LET cands == EdgeMatches(graph, point, radius)
         IN  /\ cands # {}
             /\ \E e \in cands : GeomDist2(Edge(graph, e).geometry, point) < radius * radius

\* C10: the radii are queried in the order of the list; no radius is queried
\* after one that met the stopping condition; the loop ends before the end of
\* the list only at a radius that met it; and the result is absent only after
\* every radius of the list has been queried.
C10_ExpandingRadius ==
    near.pc # "idle" =>
        LET radii == RadiiOf(near.fn)
            n == Len(near.queried)
        IN  /\ n <= Len(radii)
            /\ near.queried = SubSeq(radii, 1, n)
            /\ \A j \in 1 .. n - 1 : ~StopsAt(near.fn, near.point, radii[j])
            /\ near.pc = "loop" => \A j \in 1 .. n : ~StopsAt(near.fn, near.point, radii[j])
            /\ near.pc \in {"after", "done"} =>
                  /\ n >= 1
                  /\ n < Len(radii) => StopsAt(near.fn, near.point, radii[n])
            /\ (near.pc = "done" /\ near.result = None) => near.queried = radii

\* An edge search has ended at 150 after a query at 35 that had a candidate
\* edge no nearer than 35.
C10_Witness ==
    /\ near.pc = "done" /\ near.fn = "edge"
    /\ near.queried = <<35, 150>>
    /\ EdgeMatches(graph, near.point, 35) # {}
    /\ near.result # None

\* The largest radius of find_nearest_edge.
LastEdgeRadius == EdgeRadii[Len(EdgeRadii)]

\* The edges of the edge table whose true distance to point is less than radius.
EdgesWithin(point, radius) ==
    {e \in EdgeGdfIds(graph) : GeomDist2(Edge(graph, e).geometry, point) < radius * radius}

\* C11 as claimed: when some edge of the edge table lies within 650 m of the
\* point, find_nearest_edge returns the record of an edge no farther from the
\* point than any edge of the table; when none does, it returns absent.
C11_NearestEdgeOrAbsent ==
    (near.pc = "done" /\ near.fn = "edge") =>
        IF EdgesWithin(near.point, LastEdgeRadius) # {}
        THEN /\ near.result # None
             /\ \A e \in EdgeGdfIds(graph) :
                   GeomDist2(Val(near.result).geometry, near.point)
                       <= GeomDist2(Edge(graph, e).geometry, near.point)
        ELSE near.result = None

\* C12 as claimed: when find_nearest_node returns a node, no node of the node
\* table is strictly closer to the point.
C12_NearestNode ==
    (near.pc = "done" /\ near.fn = "node" /\ near.result # None) =>
        \A v \in VertexIds(graph) :
            PointDist2(Vertex(graph, Val(near.result)).geometry, near.point)
                <= PointDist2(Vertex(graph, v).geometry, near.point)

(***************************************************************************)
(* update_edge_attr_to_graph (lines 98-104).                               *)
(***************************************************************************)
\* A variant that sets the edge's other updatable attributes to None.
ApplyUpdates_ResetOthers(edge, updates) ==
    [key \in DOMAIN edge |->
        IF key \in DOMAIN updates THEN updates[key]
        ELSE IF key \in {"aqi", "noises"} THEN None
        ELSE edge[key]]

\* The inner loop of lines 103-104: graph.es[id][key] = value for every item.
ApplyUpdates(edge, updates) ==
    [key \in DOMAIN edge |-> IF key \in DOMAIN updates THEN updates[key] ELSE edge[key]]

\* The loop over the rows, in order.
RECURSIVE update_edge_attr_to_graph(_, _)
update_edge_attr_to_graph(g, edge_gdf) ==
    IF edge_gdf = <<>> THEN g
    ELSE LET row == Head(edge_gdf)
             g1 == [g EXCEPT !.es[row.id_ig + 1] = ApplyUpdates(@, row.updates)]
         IN  update_edge_attr_to_graph(g1, Tail(edge_gdf))

(***************************************************************************)
(* The AQI refresh job (green_paths_app.py, lines 24-31): a background     *)
(* scheduler runs maybe_update_aqi_to_graph every IntervalSeconds, each    *)
(* run in a thread of its own, and skips a run that would make more than   *)
(* MaxInstances run at once (specification SpecAqi).  Time is in seconds.  *)
(***************************************************************************)
IntervalSeconds == 10
MaxInstances == 2

\* The time up to which the clock is followed.
MaxTime == 30

\* The names of the AQI datasets that may be published.
AqiDataNames == {"aqi_data_1"}

\* graph_aqi_updater.start(): the first run is due one interval after the start.
StartedJob ==
    [now |-> 0, next_run_time |-> IntervalSeconds, running |-> <<>>, ticks |-> <<>>,
     last_tick |-> None, updated_with |-> {},
     published |-> None, aqi_data_latest |-> None,
     applied |-> [n \in AqiDataNames |-> 0]]

InitAqi ==
    /\ graph = GraphHandlerInit(StreetGraph)
    /\ ecount = ECount(graph)
    /\ vcount = VCount(graph)
    /\ pf = IdlePF
    /\ pre = graph
    /\ lcp = NoLcp
    /\ req = NoReq
    /\ policy = "startup"
    /\ hnd = NoHnd
    /\ near = NoNear
    /\ job = StartedJob
    /\ ser = NoSer
    /\ pna = NoPna
    /\ har = NoHar
    /\ gone = NoGone
    /\ upd = NoUpd

\* A second passes; the scheduler does not sleep past the time a run is due.
ClockAdvances ==
    /\ job.now < MaxTime
    /\ job.now < job.next_run_time
    /\ job' = [job EXCEPT !.now = @ + 1]
    /\ UNCHANGED <<graph, ecount, vcount, pf, pre, lcp, req, policy, hnd, near, ser, pna, har, gone, upd>>

\* A variant without the limit on running instances.
MayRunInstance_NoLimit(running) == TRUE

\* max_instances=2: a run is submitted only while fewer instances are running.
MayRunInstance(running) == Len(running) < MaxInstances

\* The run of the job is due: it is started in a new thread, or skipped.
SchedulerTick ==
    /\ job.now = job.next_run_time
    /\ job' = [job EXCEPT
                  !.next_run_time = @ + IntervalSeconds,
                  !.ticks = Append(@, job.now),
                  !.last_tick = Some([before |-> Len(job.running),
                                      started |-> MayRunInstance(job.running)]),
                  !.running = IF MayRunInstance(job.running)
                              THEN Append(@, [pc |-> "check", name |-> None])
                              ELSE @]
    /\ UNCHANGED <<graph, ecount, vcount, pf, pre, lcp, req, policy, hnd, near, ser, pna, har, gone, upd>>

\* The sequence s without its k-th element.
RemoveAt(s, k) == SubSeq(s, 1, k - 1) \o SubSeq(s, k + 1, Len(s))

\* A dataset is published where the job looks for it.
AqiDataPublished(n) ==
    /\ job.published = None
    /\ job' = [job EXCEPT !.published = Some(n)]
    /\ UNCHANGED <<graph, ecount, vcount, pf, pre, lcp, req, policy, hnd, near, ser, pna, har, gone, upd>>

\* G.new_aqi_data_available(): the name of the published dataset when it is
\* not the one applied last, else None.
new_aqi_data_available(j) ==
    IF j.published # None /\ j.published # j.aqi_data_latest THEN j.published ELSE None

\* The edge table update_aqi_to_graph hands to update_edge_attr_to_graph: an
\* AQI for every edge.
AqiUpdateTable(g, name) ==
    [k \in 1 .. ECount(g) |-> [id_ig |-> k - 1, updates |-> [aqi |-> Some(15)]]]

\* G.update_aqi_to_graph(name): the AQI of the dataset is written to the
\* edges, then the AQI status names the dataset as the latest applied.
update_aqi_to_graph(g, j, name) ==
    [graph |-> update_edge_attr_to_graph(g, AqiUpdateTable(g, name)),
     job |-> [j EXCEPT !.aqi_data_latest = Some(name),
                       !.applied[name] = @ + 1,
                       !.updated_with = @ \cup {Some(name)}]]

\* new_aqi_data_name = G.new_aqi_data_available(); the instance ends when it is None.
InstanceChecks(k, new_aqi_data_name) ==
    /\ k \in DOMAIN job.running
    /\ job.running[k].pc = "check"
    /\ job' = [job EXCEPT
                  !.running = IF new_aqi_data_name # None
                              THEN [@ EXCEPT ![k] = [pc |-> "update",
                                                     name |-> new_aqi_data_name]]
                              ELSE RemoveAt(@, k)]
    /\ UNCHANGED <<graph, ecount, vcount, pf, pre, lcp, req, policy, hnd, near, ser, pna, har, gone, upd>>

\* G.update_aqi_to_graph(new_aqi_data_name), after which the instance ends.
InstanceUpdates(k) ==
    /\ k \in DOMAIN job.running
    /\ job.running[k].pc = "update"
    /\ LET out == update_aqi_to_graph(graph, job, Val(job.running[k].name))
       IN  /\ graph' = out.graph
           /\ job' = [out.job EXCEPT !.running = RemoveAt(@, k)]
    /\ UNCHANGED <<ecount, vcount, pf, pre, lcp, req, policy, hnd, near, ser, pna, har, gone, upd>>

NextAqi ==
    \/ ClockAdvances
    \/ SchedulerTick
    \/ \E k \in 1 .. MaxInstances + 1 :
          \/ InstanceChecks(k, new_aqi_data_available(job))
          \/ InstanceUpdates(k)
    \/ \E n \in AqiDataNames : AqiDataPublished(n)

SpecAqi == InitAqi /\ [][NextAqi]_vars

\* C13: the runs of the job are due at 10, 20, ... seconds and none is passed;
\* at no time more than 2 instances run; a tick is started exactly when fewer
\* than 2 instances were running, so a tick at 2 running starts no third; and
\* update_aqi_to_graph is called only with a dataset name, never with None.
C13_RefreshJob ==
    /\ \A k \in DOMAIN job.ticks : job.ticks[k] = 10 * k
    /\ job.now <= 10 * (Len(job.ticks) + 1)
    /\ Len(job.running) <= 2
    /\ job.last_tick # None =>
          (Val(job.last_tick).started <=> Val(job.last_tick).before < 2)
    /\ \A k \in DOMAIN job.running :
          job.running[k].pc = "update" => job.running[k].name # None
    /\ None \notin job.updated_with

\* The tick at 30 s found both earlier instances still running and started
\* none; one of them is about to update with the dataset name it was given.
C13_Witness ==
    /\ job.ticks = <<10, 20, 30>>
    /\ job.last_tick = Some([before |-> 2, started |-> FALSE])
    /\ Len(job.running) = 2
    /\ \E k \in DOMAIN job.running :
          job.running[k] = [pc |-> "update", name |-> Some("aqi_data_1")]

(***************************************************************************)
(* Graph serialization (src/src/utils/igraphs.py): save_ig_to_graphml      *)
(* writes every attribute as text, read_ig_graphml reads the file and      *)
(* converts the texts back (specification SpecGraphml).  A number is in    *)
(* thousandths; its text is its decimal digits.                            *)
(***************************************************************************)
\* str(n) of an int n >= 0: its decimal digits.
RECURSIVE str_int(_)
str_int(n) == IF n < 10 THEN <<n>> ELSE Append(str_int(n \div 10), n % 10)

\* int(s)
RECURSIVE int(_)
int(s) == IF Len(s) = 0 THEN 0 ELSE 10 * int(SubSeq(s, 1, Len(s) - 1)) + s[Len(s)]

\* The digits s without trailing zeros, the first digit kept.
RECURSIVE TrimZeros(_)
TrimZeros(s) ==
    IF Len(s) > 1 /\ s[Len(s)] = 0 THEN TrimZeros(SubSeq(s, 1, Len(s) - 1)) ELSE s

\* str(x) of a float x >= 0 (given in thousandths): '2.004', '1.0'.
str_float(x) ==
    [whole |-> str_int(x \div 1000),
     frac |-> TrimZeros(<<(x % 1000) \div 100, ((x % 1000) \div 10) % 10, x % 10>>)]

\* float(s), in thousandths.
float(s) ==
    LET f == s.frac \o <<0, 0>>
    IN  1000 * int(s.whole) + 100 * f[1] + 10 * f[2] + f[3]

\* str(uvkey) of a tuple of ints: '(0, 1, 0)'.
str_tuple(t) == [py |-> "tuple", items |-> [i \in DOMAIN t |-> str_int(t[i])]]

\* str(noises): 'None', or the literal of the dict, '{55: 0.4}'.
str_noises(noises) ==
    IF noises = None THEN [py |-> "None"]
    ELSE [py |-> "dict",
          items |-> {<<str_int(b), str_float(Val(noises)[b])>> : b \in DOMAIN Val(noises)}]

\* ast.literal_eval
literal_eval(text) ==
    CASE text.py = "None" -> None
      [] text.py = "tuple" -> [i \in DOMAIN text.items |-> int(text.items[i])]
      [] text.py = "dict" ->
            Some([b \in {int(it[1]) : it \in text.items} |->
                     float((CHOOSE it \in text.items : int(it[1]) = b)[2])])

\* str(geometry): the WKT of a line, 'LINESTRING (0 0, 2.004 0)'; 'None' for None.
str_geometry(geometry) ==
    IF geometry = None THEN [py |-> "None"]
    ELSE [wkt |-> "LINESTRING",
          coords |-> [i \in DOMAIN geometry |->
                         <<str_float(geometry[i][1]), str_float(geometry[i][2])>>]]

\* wkt.loads raises on a text that is not WKT.
wkt_loads_ok(text) == "wkt" \in DOMAIN text

wkt_loads(text) ==
    [i \in DOMAIN text.coords |-> <<float(text.coords[i][1]), float(text.coords[i][2])>>]

\* save_ig_to_graphml: the copy Gc with every attribute stringified, as saved.
save_ig_to_graphml(G) ==
    [vs |-> [i \in DOMAIN G.vs |->
                [vertex_id |-> str_int(G.vs[i].vertex_id),
                 x_coord |-> str_float(G.vs[i].x_coord),
                 y_coord |-> str_float(G.vs[i].y_coord)]],
     es |-> [k \in DOMAIN G.es |->
                [source |-> G.es[k].source, target |-> G.es[k].target,
                 edge_id |-> str_int(G.es[k].edge_id),
                 uvkey |-> str_tuple(G.es[k].uvkey),
                 length |-> str_float(G.es[k].length),
                 noises |-> str_noises(G.es[k].noises),
                 geometry |-> str_geometry(G.es[k].geometry)]]]

\* convert_edge_attr_types
convert_edge_attr_types(edge) ==
    [source |-> edge.source, target |-> edge.target,
     edge_id |-> int(edge.edge_id),
     uvkey |-> literal_eval(edge.uvkey),
     length |-> float(edge.length),
     noises |-> literal_eval(edge.noises),
     geometry |-> wkt_loads(edge.geometry)]

\* convert_node_attr_types
convert_node_attr_types(N) ==
    [vertex_id |-> int(N.vertex_id), x_coord |-> float(N.x_coord),
     y_coord |-> float(N.y_coord)]

\* read_ig_graphml: set_graph_attributes on the graph of the file; an exception
\* of a conversion ends the read.
read_ig_graphml(file) ==
    IF \A k \in DOMAIN file.es : wkt_loads_ok(file.es[k].geometry)
    THEN [raised |-> FALSE,
          G |-> [vs |-> [i \in DOMAIN file.vs |-> convert_node_attr_types(file.vs[i])],
                 es |-> [k \in DOMAIN file.es |-> convert_edge_attr_types(file.es[k])]]]
    ELSE [raised |-> TRUE]

\* The graphs to serialize: NumV vertices, up to MaxE parallel edges 0 -> 1,
\* each with a length, a noise map that may be None or empty, and a line or None.
SerLengths == {0, 1000, 2004}
SerNoises == {None, Some(<<>>), Some(55 :> 400 @@ 70 :> 1250)}
SerGeometries == {None, <<NodePos(0), NodePos(1)>>}

SerGraphs ==
    {[vs |-> [i \in 1 .. NumV |->
                 [vertex_id |-> i - 1, x_coord |-> NodePos(i - 1)[1],
                  y_coord |-> NodePos(i - 1)[2]]],
      es |-> [k \in 1 .. Len(attrs) |->
                 [source |-> 0, target |-> 1, edge_id |-> k - 1, uvkey |-> <<0, 1, k - 1>>,
                  length |-> attrs[k][1], noises |-> attrs[k][2],
                  geometry |-> attrs[k][3]]]] :
        attrs \in UNION {[1 .. m -> SerLengths \X SerNoises \X SerGeometries] :
                            m \in 0 .. MaxE}}

InitGraphml ==
    /\ graph = GraphHandlerInit(StreetGraph)
    /\ ecount = ECount(graph)
    /\ vcount = VCount(graph)
    /\ pf = IdlePF
    /\ pre = graph
    /\ lcp = NoLcp
    /\ req = NoReq
    /\ policy = "startup"
    /\ hnd = NoHnd
    /\ near = NoNear
    /\ job = NoJob
    /\ \E G \in SerGraphs : ser = [G |-> G, G0 |-> G, file |-> None, read |-> None]
    /\ pna = NoPna
    /\ har = NoHar
    /\ gone = NoGone
    /\ upd = NoUpd

\* save_ig_to_graphml(G)
SaveIgToGraphml ==
    /\ ser.file = None
    /\ ser' = [ser EXCEPT !.file = Some(save_ig_to_graphml(ser.G))]
    /\ UNCHANGED <<graph, ecount, vcount, pf, pre, lcp, req, policy, hnd, near, job, pna, har, gone, upd>>

\* read_ig_graphml() of the saved file
ReadIgGraphml ==
    /\ ser.file # None
    /\ ser.read = None
    /\ ser' = [ser EXCEPT !.read = Some(read_ig_graphml(Val(ser.file)))]
    /\ UNCHANGED <<graph, ecount, vcount, pf, pre, lcp, req, policy, hnd, near, job, pna, har, gone, upd>>

NextGraphml == SaveIgToGraphml \/ ReadIgGraphml

SpecGraphml == InitGraphml /\ [][NextGraphml]_vars

\* C14 as claimed: for any graph, also with absent or empty noise maps and
\* edges without a line, saving and then reading gives a graph with the same
\* node and edge counts and the same ids, endpoint tuples, lengths, geometries,
\* noise maps and coordinates; and saving leaves the graph in memory as it was.
C14_SerializationRoundTrip ==
    /\ ser.G = ser.G0
    /\ ser.read # None =>
          /\ ~Val(ser.read).raised
          /\ Val(ser.read).G = ser.G0

(***************************************************************************)
(* Path noise attributes (src/src/app/path_noises.py): set_noise_diff_attrs *)
(* on a path's attributes against those of the shortest path               *)
(* (specification SpecPathNoise).  mdB, nei, the diffs and len_diff are in *)
(* tenths.                                                                 *)
(***************************************************************************)
\* round(n / d, 0) for d > 0 and any n, ties to even.
RoundSigned(n, d) == IF n >= 0 THEN RoundHalfEven(n, d) ELSE 0 - RoundHalfEven(0 - n, d)

\* A PathNoiseAttrs after set_noise_attrs: mdB, nei and nei_norm are set when
\* the path has noise data, and left None when it has none; the diffs are not
\* set yet.  nei_norm = round(nei / (max_db_cost * length), 4) is in
\* ten-thousandths, here for a path of 80 m (max_db_cost is 0.5).
PathNoiseAttrs(mdB, nei) ==
    [mdB |-> mdB, nei |-> nei,
     nei_norm |-> IF nei = None THEN None ELSE Some(Val(nei) * 25),
     mdB_diff |-> None, nei_diff |-> None,
     nei_diff_rat |-> None, nei_diff_score |-> None]

PathMdBs == {550, 623}
PathNeis == {0, 5, 12, 33}
LenDiffs == {0 - 15, 0, 7, 30}

PathNoiseAttrsSet ==
    {PathNoiseAttrs(None, None)}
        \cup {PathNoiseAttrs(Some(mdB), Some(nei)) : mdB \in PathMdBs, nei \in PathNeis}

\* A variant that divides by the baseline NEI whenever it is not negative.
DividesByNei_AlsoAtZero(s_nei) == s_nei >= 0

\* ... if s_path_noise_attrs.nei > 0 else 0  (line 32)
DividesByNei(s_nei) == s_nei > 0

\* ... if len_diff > 0 else 0  (line 33)
DividesByLenDiff(len_diff) == len_diff > 0

\* set_noise_diff_attrs(self, s_path_noise_attrs, len_diff): the attributes
\* after the call, or the exception it raises.
set_noise_diff_attrs(self, s_path_noise_attrs, len_diff) ==
    IF self.mdB = None \/ s_path_noise_attrs.mdB = None
    THEN [raised |-> "TypeError", self |-> self]
    ELSE LET s_nei == Val(s_path_noise_attrs.nei)
             mdB_diff == Val(self.mdB) - Val(s_path_noise_attrs.mdB)
             nei_diff == Val(self.nei) - s_nei
         IN  IF (DividesByNei(s_nei) /\ s_nei = 0)
                \/ (DividesByLenDiff(len_diff) /\ len_diff = 0)
             THEN [raised |-> "ZeroDivisionError",
                   self |-> [self EXCEPT !.mdB_diff = Some(mdB_diff),
                                         !.nei_diff = Some(nei_diff)]]
             ELSE [raised |-> "",
                   self |-> [self EXCEPT
                      !.mdB_diff = Some(mdB_diff),
                      !.nei_diff = Some(nei_diff),
                      !.nei_diff_rat =
                          Some(IF DividesByNei(s_nei)
                               THEN RoundSigned(nei_diff * 1000, s_nei) ELSE 0),
                      !.nei_diff_score =
                          Some(IF DividesByLenDiff(len_diff)
                               THEN RoundSigned(0 - nei_diff * 10, len_diff) ELSE 0)]]

\* get_noise_props_dict(self): the flat record, or the exception that
\* round(self.nei_norm, 2) raises; nei_norm comes out in hundredths.
get_noise_props_dict(self) ==
    IF self.nei_norm = None
    THEN [raised |-> "TypeError", dict |-> None]
    ELSE [raised |-> "",
          dict |-> Some([mdB |-> self.mdB, nei |-> self.nei,
                         nei_norm |-> Some(RoundHalfEven(Val(self.nei_norm), 100)),
                         mdB_diff |-> self.mdB_diff, nei_diff |-> self.nei_diff,
                         nei_diff_rat |-> self.nei_diff_rat,
                         path_score |-> self.nei_diff_score])]

InitPathNoise ==
    /\ graph = GraphHandlerInit(StreetGraph)
    /\ ecount = ECount(graph)
    /\ vcount = VCount(graph)
    /\ pf = IdlePF
    /\ pre = graph
    /\ lcp = NoLcp
    /\ req = NoReq
    /\ policy = "startup"
    /\ hnd = NoHnd
    /\ near = NoNear
    /\ job = NoJob
    /\ ser = NoSer
    /\ \E self \in PathNoiseAttrsSet, s \in PathNoiseAttrsSet, len_diff \in LenDiffs :
          pna = [self |-> self, s_path_noise_attrs |-> s, len_diff |-> len_diff,
                 called |-> FALSE, raised |-> "", props |-> None]
    /\ har = NoHar
    /\ gone = NoGone
    /\ upd = NoUpd

SetNoiseDiffAttrs ==
    /\ ~pna.called
    /\ LET out == set_noise_diff_attrs(pna.self, pna.s_path_noise_attrs, pna.len_diff)
       IN  pna' = [pna EXCEPT !.called = TRUE, !.raised = out.raised, !.self = out.self]
    /\ UNCHANGED <<graph, ecount, vcount, pf, pre, lcp, req, policy, hnd, near, job, ser, har, gone, upd>>

\* The path's get_noise_props_dict() is called, before or after the diffs are set.
GetNoisePropsDict ==
    /\ pna.props = None
    /\ pna' = [pna EXCEPT !.props = Some(get_noise_props_dict(pna.self))]
    /\ UNCHANGED <<graph, ecount, vcount, pf, pre, lcp, req, policy, hnd, near, job, ser, har, gone, upd>>

NextPathNoise == SetNoiseDiffAttrs \/ GetNoisePropsDict

SpecPathNoise == InitPathNoise /\ [][NextPathNoise]_vars

\* x (in tenths) is num / den rounded to 1 decimal: no tenth is nearer.
NearestTenth(x, num, den) == 2 * Abs(x * den - 10 * num) <= den

\* C15: for paths with noise attributes, a baseline NEI >= 0 and any len_diff,
\* set_noise_diff_attrs divides by zero in no case; nei_diff_rat is 0 when the
\* baseline NEI is 0 and (nei_diff / baseline NEI) x 100 to 1 decimal otherwise;
\* nei_diff_score is 0 when len_diff <= 0 and -(nei_diff / len_diff) to 1
\* decimal otherwise.
C15_NeiDiffEdgeCases ==
    (pna.called /\ pna.self.mdB # None /\ pna.s_path_noise_attrs.mdB # None) =>
        LET s_nei == Val(pna.s_path_noise_attrs.nei)
            nei_diff == Val(pna.self.nei) - s_nei
        IN  /\ pna.raised = ""
            /\ Val(pna.self.nei_diff) = nei_diff
            /\ IF s_nei = 0 THEN Val(pna.self.nei_diff_rat) = 0
               ELSE NearestTenth(Val(pna.self.nei_diff_rat), nei_diff * 100, s_nei)
            /\ IF pna.len_diff <= 0 THEN Val(pna.self.nei_diff_score) = 0
               ELSE NearestTenth(Val(pna.self.nei_diff_score), 0 - nei_diff, pna.len_diff)

\* The call was made with a baseline NEI of 0, a len_diff of 0 and a path whose
\* NEI is not the baseline's.
C15_Witness ==
    /\ pna.called /\ pna.raised = ""
    /\ pna.s_path_noise_attrs.nei = Some(0)
    /\ pna.len_diff = 0
    /\ pna.self.nei = Some(33)
    /\ pna.self.nei_diff_rat = Some(0) /\ pna.self.nei_diff_score = Some(0)

nts == <<5, 20>>

\* Node 0, node 1 at 2.004 from it, and the others off beyond node 1.
HarnessPos(i, off) == <<IF i = 0 THEN 0 ELSE 2004 + off * (i - 1), 0>>

\* An edge of the loaded graph, all of it exposed at db.
HarnessEdge(s, t, db, off) ==
    LET geom == <<HarnessPos(s, off), HarnessPos(t, off)>>
    IN  [source |-> s, target |-> t, uv |-> <<s, t>>,
         length |-> Some(GeomLength(geom)), noises |-> Some(db :> GeomLength(geom)),
         nc |-> None, aqi |-> None, geometry |-> geom]

\* A loud two-way street 0 - 1 with a quiet one-way detour 0 -> 2 -> 1, and a
\* loud one-way street 0 -> 1 -> 2.
HarnessEdgeLists ==
    { << <<0, 1, 70>>, <<1, 0, 70>>, <<0, 2, 40>>, <<2, 1, 40>> >>,
      << <<0, 1, 70>>, <<1, 2, 70>> >> }

\* How far beyond node 1 the other nodes lie.
HarnessOffsets == {100, 300}

\* graph_utils.set_graph_noise_costs: nc_<nt> on every edge.
set_graph_noise_costs(g) == set_noise_costs_to_edges(g)

\* The module-level graph after lines 66-75.
HarnessGraphs ==
    {set_graph_noise_costs(
         [vs |-> [i \in 1 .. NumV |-> [geometry |-> HarnessPos(i - 1, off), name |-> i - 1]],
          es |-> [k \in 1 .. Len(l) |-> HarnessEdge(l[k][1], l[k][2], l[k][3], off)]]) :
        l \in HarnessEdgeLists, off \in HarnessOffsets}

\* Where a query point resolves: to a node of the node table, to a point on an
\* edge of the edge table, or nowhere.
Locators(g0) ==
    {[kind |-> "node", node |-> n, edge |-> 0, point |-> <<0, 0>>] : n \in VertexIds(g0)}
        \cup UNION {{[kind |-> "edge", node |-> 0, edge |-> e, point |-> p] :
                        p \in PointsOn(Edge(g0, e).geometry)} : e \in EdgeIds(g0)}
        \cup {[kind |-> "none", node |-> 0, edge |-> 0, point |-> <<0, 0>>]}

\* The index of the node named name.
NodeIndex(g, name) == CHOOSE i \in VertexIds(g) : Vertex(g, i).name = name

\* A name no node of the graph has.
NewNodeName(g) == 1 + CHOOSE m \in {Vertex(g, i).name : i \in VertexIds(g)} :
                         \A i \in VertexIds(g) : Vertex(g, i).name <= m

\* The noise map of a linking edge: the parent's, by the link's share of its length.
HarnessLinkNoises(edge, link) ==
    Some([b \in DOMAIN Val(edge.noises) |->
            Round2Frac(Val(edge.noises)[b] * GeomLength(link), Val(edge.length))])

\* One end of the query resolved in g: the node found, or a new node spliced
\* into the edge found with its four linking edges.
ResolveNode(g, g0, loc) ==
    IF loc.kind = "none"
    THEN [graph |-> g, node |-> None, link_edges |-> None]
    ELSE IF loc.kind = "node"
    THEN [graph |-> g, node |-> Some(loc.node), link_edges |-> None]
    ELSE LET edge == Edge(g0, loc.edge)
             new_name == NewNodeName(g)
             new_node == get_new_node_id(g)
             g1 == [g EXCEPT !.vs = Append(@, [geometry |-> loc.point, name |-> new_name])]
             g2 == create_linking_edges_graph(g1, new_node, loc.point, edge)
             link_edges == {<<edge.uv[1], new_name>>, <<new_name, edge.uv[1]>>,
                            <<new_name, edge.uv[2]>>, <<edge.uv[2], new_name>>}
         IN  [graph |-> [g2 EXCEPT !.es = [k \in 1 .. Len(g2.es) |->
                            LET e == g2.es[k]
                            IN  IF k > ECount(g)
                                THEN [e EXCEPT
                                        !.uv = <<Vertex(g2, e.source).name,
                                                 Vertex(g2, e.target).name>>,
                                        !.noises = HarnessLinkNoises(edge, e.geometry)]
                                ELSE e]],
              node |-> Some(new_name), link_edges |-> Some(link_edges)]

\* rt_utils.get_orig_dest_nodes_and_linking_edges: the origin, then the destination.
get_orig_dest_nodes_and_linking_edges(g, g0, od) ==
    LET o == ResolveNode(g, g0, od.orig)
        d == ResolveNode(o.graph, g0, od.dest)
    IN  [graph |-> d.graph, orig_node |-> o.node, dest_node |-> d.node,
         orig_link_edges |-> o.link_edges, dest_link_edges |-> d.link_edges]

\* rt_utils.get_least_cost_path (networkx): the paths it may return, as edge
\* lists; none when it raises because dest cannot be reached.  From a node to
\* itself the path has no edge.
rt_utils_get_least_cost_path(g, orig, dest, weight) ==
    LET o == NodeIndex(g, orig)
        d == NodeIndex(g, dest)
        dist == Distances(g, weight, o)
    IN  IF dist[d] = Unreached THEN {} ELSE TreePaths(g, weight, dist, o, d, VCount(g))

\* The exposures of map a plus those of map b.
AddNoises(a, b) ==
    [db \in DOMAIN a \cup DOMAIN b |->
        (IF db \in DOMAIN a THEN a[db] ELSE 0) + (IF db \in DOMAIN b THEN b[db] ELSE 0)]

\* noise_exps.aggregate_exposures: the sum of a list of noise maps.
RECURSIVE aggregate_exposures(_)
aggregate_exposures(maps) ==
    IF maps = <<>> THEN <<>>
    ELSE AddNoises(Head(maps), aggregate_exposures(Tail(maps)))

\* graph_utils.aggregate_path_geoms_attrs: the path's length and noise map.
aggregate_path_geoms_attrs(g, path) ==
    [total_length |-> SumSeq([k \in 1 .. Len(path) |-> Val(Edge(g, path[k]).length)]),
     noises |-> aggregate_exposures([k \in 1 .. Len(path) |-> Val(Edge(g, path[k]).noises)])]

\* graph_utils.remove_new_node_and_link_edges: nothing when the node was found
\* in the graph (link_edges is None).
remove_new_node_and_link_edges(g, new_node, link_edges) ==
    IF link_edges = None THEN g
    ELSE LET g1 == delete_edges(g, {e \in EdgeIds(g) : Edge(g, e).uv \in Val(link_edges)})
         IN  delete_vertices(g1, {NodeIndex(g1, new_node)})

\* A variant that removes the origin's new node and linking edges only.
RemoveLinkingEdges_OrigOnly(r) ==
    remove_new_node_and_link_edges(r.graph, Val(r.orig_node), r.orig_link_edges)

\* Lines 49-50: the origin's new node and linking edges are removed, then the
\* destination's.
RemoveLinkingEdges(r) ==
    remove_new_node_and_link_edges(
        remove_new_node_and_link_edges(r.graph, Val(r.orig_node), r.orig_link_edges),
        Val(r.dest_node), r.dest_link_edges)

\* Lines 38-47: path_list for the paths the searches returned (paths[1] by
\* length, paths[1 + k] by nc_<nts[k]>).
PathList(g, paths) ==
    [k \in 1 .. 1 + Len(nts) |->
        LET agg == aggregate_path_geoms_attrs(g, paths[k])
        IN  [type |-> IF k = 1 THEN "short" ELSE "quiet",
             nt |-> IF k = 1 THEN 0 ELSE nts[k - 1],
             total_length |-> agg.total_length, noises |-> agg.noises]]

\* A variant that keeps every row.
drop_duplicates_KeepAll(rows) == rows

\* drop_duplicates(subset=['type', 'total_length']): the first row of each kind
\* and length is kept.
RECURSIVE drop_duplicates(_)
drop_duplicates(rows) ==
    IF rows = <<>> THEN <<>>
    ELSE LET first == drop_duplicates(SubSeq(rows, 1, Len(rows) - 1))
             last == rows[Len(rows)]
         IN  IF \E k \in 1 .. Len(first) :
                    first[k].type = last.type /\ first[k].total_length = last.total_length
             THEN first ELSE Append(first, last)

\* The order of sort_values(by=['type', 'total_length'], ascending=[False, True]).
RowBefore(a, b) ==
    \/ a.type = "short" /\ b.type = "quiet"
    \/ a.type = b.type /\ a.total_length < b.total_length

RECURSIVE sort_values(_)
sort_values(rows) ==
    IF rows = <<>> THEN <<>>
    ELSE LET k == CHOOSE i \in 1 .. Len(rows) :
                     \A j \in 1 .. Len(rows) :
                        ~RowBefore(rows[j], rows[i]) /\ (i <= j \/ RowBefore(rows[i], rows[j]))
         IN  <<rows[k]>> \o sort_values(SelectIdx(rows, (1 .. Len(rows)) \ {k}, 1))

\* Line 59 divides by 0.6 * total_length.
NeiNormDivides(paths_gdf) == \A k \in 1 .. Len(paths_gdf) : paths_gdf[k].total_length # 0

\* The outcome of a call that raised, leaving graph g.
HarnessRaised(g) == [raised |-> TRUE, graph |-> g, paths |-> <<>>]

\* The outcomes of get_short_quiet_paths on graph g: the graph it leaves, and
\* the table it returns unless it raised.  r is what line 26 returned, found
\* the paths each search of lines 39-45 may return, g2 the graph after lines
\* 49-50 and paths_gdf the table of lines 53-54.
get_short_quiet_paths(g, g0, od) ==
    UNION {
      IF r.orig_node = None \/ r.dest_node = None THEN {HarnessRaised(r.graph)}
      ELSE UNION {
        IF \E k \in DOMAIN found : found[k] = {} THEN {HarnessRaised(r.graph)}
        ELSE UNION {
               (IF NeiNormDivides(paths_gdf) THEN {} ELSE {HarnessRaised(g2)})
                   \cup {[raised |-> FALSE, graph |-> g2, paths |-> paths_gdf]} :
               g2 \in {RemoveLinkingEdges(r)},
               paths_gdf \in
                   {sort_values(drop_duplicates(PathList(r.graph, paths))) :
                      paths \in {f \in [DOMAIN found -> UNION {found[k] : k \in DOMAIN found}] :
                                   \A k \in DOMAIN found : f[k] \in found[k]}}} :
        found \in {[k \in 1 .. 1 + Len(nts) |->
                     rt_utils_get_least_cost_path(r.graph, Val(r.orig_node),
                         Val(r.dest_node),
                         IF k = 1 THEN <<"length">> ELSE <<"nc", nts[k - 1]>>)]}} :
      r \in {get_orig_dest_nodes_and_linking_edges(g, g0, od)}}

\* round(x, 1) of a length in thousandths.
Round1(x) == RoundHalfEven(x, 100) * 100

\* The rows of the table of type type.
RowsOfType(paths, type) == SelectSeq(paths, LAMBDA row : row.type = type)

\* get_od_path_stats (lines 82-93) of the table get_short_quiet_paths returned.
get_od_path_stats(paths) ==
    LET sp == RowsOfType(paths, "short")
        qp == RowsOfType(paths, "quiet")
        all_noises == aggregate_exposures([k \in 1 .. Len(paths) |-> paths[k].noises])
    IN  [sp_count |-> Len(sp),
         qp_count |-> Len(qp),
         sp_len |-> Round1(SumSeq([k \in 1 .. Len(sp) |-> sp[k].total_length])),
         qp_len_sum |-> Round1(SumSeq([k \in 1 .. Len(qp) |-> qp[k].total_length])),
         noise_total_len |-> Round1(SumFun(all_noises, DOMAIN all_noises))]

\* Nodes that calls which raised have left in the graph beyond this many end
\* the run.
MaxLeftover == 1

InitHarness ==
    /\ graph = GraphHandlerInit(StreetGraph)
    /\ ecount = ECount(graph)
    /\ vcount = VCount(graph)
    /\ pf = IdlePF
    /\ pre = graph
    /\ lcp = NoLcp
    /\ req = NoReq
    /\ policy = "startup"
    /\ hnd = NoHnd
    /\ near = NoNear
    /\ job = NoJob
    /\ ser = NoSer
    /\ pna = NoPna
    /\ \E g0 \in HarnessGraphs :
          har = [graph |-> g0, G0 |-> g0, before |-> g0, called |-> FALSE,
                 again |-> FALSE, all_returned |-> TRUE,
                 od |-> None, raised |-> FALSE, paths |-> <<>>, stats |-> None]
    /\ gone = NoGone
    /\ upd = NoUpd

\* One test: get_od_path_stats(graph, od), which calls get_short_quiet_paths.
GetOdPathStats(od) ==
    /\ har.od = None
    /\ VCount(har.graph) <= VCount(har.G0) + MaxLeftover
    /\ \E out \in get_short_quiet_paths(har.graph, har.G0, od) :
          har' = [har EXCEPT !.graph = out.graph, !.before = har.graph,
                             !.called = TRUE, !.again = har.called,
                             !.all_returned = har.all_returned /\ ~out.raised,
                             !.od = Some(od), !.raised = out.raised,
                             !.paths = out.paths,
                             !.stats = IF out.raised THEN None
                                       ELSE Some(get_od_path_stats(out.paths))]
    /\ UNCHANGED <<graph, ecount, vcount, pf, pre, lcp, req, policy, hnd, near, job, ser, pna, gone, upd>>

\* The test method ends (assertDictEqual on the stats, or the error of a call
\* that raised); unittest goes on to the next test.
TestEnds ==
    /\ har.od # None
    /\ har' = [har EXCEPT !.od = None, !.raised = FALSE, !.paths = <<>>, !.stats = None]
    /\ UNCHANGED <<graph, ecount, vcount, pf, pre, lcp, req, policy, hnd, near, job, ser, pna, gone, upd>>

NextHarness ==
    \/ \E orig, dest \in Locators(har.G0) : GetOdPathStats([orig |-> orig, dest |-> dest])
    \/ TestEnds

SpecHarness == InitHarness /\ [][NextHarness]_vars

\* C17: when the origin and the destination of a test are distinct and both
\* resolve, the table get_short_quiet_paths returns holds exactly one path of
\* type 'short' (sp_count = 1), at least one path of type 'quiet' and at most
\* one per noise tolerance, and no two of its paths have the same type and the
\* same total length.
C17_OneShortSomeQuiet ==
    (har.od # None /\ ~har.raised /\ Val(har.od).orig # Val(har.od).dest) =>
        /\ Len(RowsOfType(har.paths, "short")) = 1
        /\ Val(har.stats).sp_count = 1
        /\ Len(RowsOfType(har.paths, "quiet")) \in 1 .. Len(nts)
        /\ Val(har.stats).qp_count = Len(RowsOfType(har.paths, "quiet"))
        /\ \A i, j \in 1 .. Len(har.paths) :
              i # j => ~(/\ har.paths[i].type = har.paths[j].type
                         /\ har.paths[i].total_length = har.paths[j].total_length)

\* A test between two spliced points has returned one quiet path, longer than
\* the short one, for the two noise tolerances.
C17_Witness ==
    /\ har.od # None
    /\ ~har.raised
    /\ Val(har.od).orig.kind = "edge"
    /\ Val(har.od).dest.kind = "edge"
    /\ Val(har.od).orig # Val(har.od).dest
    /\ Len(nts) = 2
    /\ Val(har.stats).qp_count = 1
    /\ Val(har.stats).qp_len_sum > Val(har.stats).sp_len

\* C18: when a call of get_short_quiet_paths has returned, the harness's graph
\* is the graph of before the call; and while every call has returned, the
\* graph is the one loaded and the table is one the call returns on the graph
\* as loaded, whatever tests ran before.
C18_GraphRestored ==
    (har.od # None /\ ~har.raised) =>
        /\ har.graph = har.before
        /\ har.all_returned =>
              /\ har.graph = har.G0
              /\ [raised |-> FALSE, graph |-> har.G0, paths |-> har.paths]
                    \in get_short_quiet_paths(har.G0, har.G0, Val(har.od))

\* A test that is not the first has returned, every test so far has, and it
\* spliced a new node both for its origin and for its destination.
C18_Witness ==
    /\ har.od # None
    /\ ~har.raised
    /\ har.again
    /\ har.all_returned
    /\ Val(har.od).orig.kind = "edge"
    /\ Val(har.od).dest.kind = "edge"
    /\ Val(har.od).orig # Val(har.od).dest

\* The AQI values an edge may carry: none, zero, or an index.
ParentAqis == {None, Some(0), Some(15)}

\* The two edges carry the same length, noise costs and AQI.
SameCosts(a, b) == a.length = b.length /\ a.nc = b.nc /\ a.aqi = b.aqi

\* What C19 says of a step of create_linking_edges_for_new_node for the origin
\* or the destination w.
C19_Step(w) ==
    LET edge == pf.split[w].edge
        u == edge.uv[1]
        v == edge.uv[2]
        new == pf.node[w].node
        n == ECount(graph)
        e(k) == graph'.es[n + k]
    IN  /\ ECount(graph') = n + 4
        /\ graph'.vs = graph.vs
        /\ \A k \in 1 .. n : graph'.es[k] = graph.es[k]
        /\ <<e(1).source, e(1).target>> = <<u, new>> /\ e(1).uv = <<u, new>>
        /\ <<e(2).source, e(2).target>> = <<new, u>> /\ e(2).uv = <<new, u>>
        /\ <<e(3).source, e(3).target>> = <<new, v>> /\ e(3).uv = <<new, v>>
        /\ <<e(4).source, e(4).target>> = <<v, new>> /\ e(4).uv = <<v, new>>
        /\ SameCosts(e(1), e(2))
        /\ SameCosts(e(3), e(4))
        /\ \A aqi \in ParentAqis :
              LET attrs == NewEdgeAttrs(graph, new, pf.split[w].point,
                               [edge EXCEPT !.aqi = aqi])
              IN  SameCosts(attrs[1], attrs[2]) /\ SameCosts(attrs[3], attrs[4])

\* C19: create_linking_edges_for_new_node adds exactly four directed edges,
\* (u, new), (new, u), (new, v), (v, new) for the parent edge (u, v); it adds
\* and removes no other edge or vertex; and the two edges of each
\* opposite-direction pair carry the same length, the same prorated noise
\* costs and the same AQI, whatever AQI the parent edge has.
C19_FourLinkingEdges ==
    [][\A w \in Who : (pf.edges[w] = None /\ pf'.edges[w] # None) => C19_Step(w)]_vars

\* Both the origin and the destination have their four linking edges, on a
\* parent edge with noise costs.
C19_Witness ==
    /\ pf.stage = "splicing"
    /\ pf.edges["orig"] # None
    /\ pf.edges["dest"] # None
    /\ ECount(graph) = ecount + 8
    /\ pf.split["orig"].edge.nc # None
    /\ Edge(graph, ecount).length # Edge(graph, ecount + 2).length

(***************************************************************************)
(* Cleanup with stale ids (specification SpecCleanup).  One Path Finder    *)
(* splices the origin and the destination; before its cleanup, the cleanup *)
(* of another request that held the same ids (the handler takes no lock,   *)
(* and get_new_node_id can give two requests one id) deletes the linking   *)
(* edges it looks up for one of the two splices, or its new node as well.  *)
(***************************************************************************)
Other(w) == IF w = "orig" THEN "dest" ELSE "orig"

\* What the other request's cleanup has deleted of a splice.
GoneKinds == {"edges", "node"}

\* The graph once the other request's cleanup has deleted, of the splice with
\* record link_edges and new node node, the linking edges (and the node).
AfterOtherCleanup(g, link_edges, node, what) ==
    IF what = "edges"
    THEN {delete_edges(g, ids) : ids \in LinkEidChoices(g, link_edges)}
    ELSE delete_added_linking_edges(g, link_edges, node, None, None)

\* The ids recorded for a splice still name its features in g: the new node is
\* the vertex at the split point and both linking-edge lookups succeed.
RecordValid(g, link_edges, node, point) ==
    /\ node.node \in VertexIds(g)
    /\ Vertex(g, node.node).geometry = point
    /\ get_eid_set(g, link_edges.link1.uv[1], link_edges.link1.uv[2]) # {}
    /\ get_eid_set(g, link_edges.link2.uv[1], link_edges.link2.uv[2]) # {}

InitCleanup ==
    /\ graph \in {GraphHandlerInit(fg) : fg \in FileGraphs}
    /\ ecount = ECount(graph)
    /\ vcount = VCount(graph)
    /\ pf = IdlePF
    /\ pre = graph
    /\ lcp = NoLcp
    /\ req = NoReq
    /\ policy = "startup"
    /\ hnd = NoHnd
    /\ near = NoNear
    /\ job = NoJob
    /\ ser = NoSer
    /\ pna = NoPna
    /\ har = NoHar
    /\ gone = None
    /\ upd = NoUpd

\* The cleanup of another request deletes features of the splice of w.
OtherRequestCleans(w, what) ==
    /\ gone = None
    /\ pf.stage = "splicing"
    /\ \A x \in Who : pf.edges[x] # None
    /\ \E g \in AfterOtherCleanup(graph, pf.edges[w], pf.node[w], what) :
          /\ graph' = g
          /\ gone' = Some([who |-> w, what |-> what,
                           w_valid |-> RecordValid(g, pf.edges[w], pf.node[w],
                                           pf.split[w].point),
                           other_valid |-> RecordValid(g, pf.edges[Other(w)],
                                               pf.node[Other(w)],
                                               pf.split[Other(w)].point)])
    /\ UNCHANGED <<ecount, vcount, pf, pre, lcp, req, policy, hnd, near, job, ser, pna, har, upd>>

\* The Path Finder's steps, for one request.
NextCleanup ==
    \/ \E w \in Who : \E e \in EdgeGdfIds(graph) :
          \E point \in PointsOn(Edge(graph, e).geometry) :
             pf.stage # "cleaned" /\ AddNewNode(w, e, point)
    \/ \E w \in Who : CreateLinkingEdges(w)
    \/ \E w \in Who : \E what \in GoneKinds : OtherRequestCleans(w, what)
    \/ pf.stage # "cleaned" /\ DeleteAddedLinkingEdges

SpecCleanup == InitCleanup /\ [][NextCleanup]_vars

\* C20: cleanup isolation.  When both the origin and the destination were
\* spliced and the ids recorded for one of them have gone stale (a lookup of
\* its linking edges fails, or its new node no longer exists) while those of
\* the other are good, delete_added_linking_edges still deletes the other's
\* linking edges and new node: the graph is left with the vertices and edges
\* it was loaded with.  (The call does not raise: every deletion is in a try.)
C20_CleanupIsolation ==
    (/\ pf.stage = "cleaned"
     /\ gone # None
     /\ ~Val(gone).w_valid
     /\ Val(gone).other_valid) => CountsAsRecorded(graph)

\* The endpoint pairs create_linking_edges_for_new_node hands to
\* add_new_edges_to_graph for the splice of w.
EdgeTuplesOf(w) ==
    LET edge == pf.split[w].edge
        new == pf.node[w].node
    IN  <<<<edge.uv[1], new>>, <<new, edge.uv[1]>>, <<new, edge.uv[2]>>, <<edge.uv[2], new>>>>

\* What C21 says of a step of add_new_node_to_graph for w: the id returned is
\* the vertex count of before, and one vertex, at the point given, is added.
C21_NodeStep(w) ==
    /\ pf'.node[w].node = VCount(graph)
    /\ VCount(graph') = VCount(graph) + 1
    /\ Vertex(graph', pf'.node[w].node).geometry = pf'.split[w].point
    /\ \A i \in VertexIds(graph) : Vertex(graph', i) = Vertex(graph, i)
    /\ graph'.es = graph.es

\* What C21 says of add_new_edges_to_graph on the first k pairs of the splice
\* of w, and of the call create_linking_edges_for_new_node makes with all four.
C21_EdgesStep(w) ==
    /\ \A k \in 1 .. 4 :
          LET uvs == SubSeq(EdgeTuplesOf(w), 1, k)
              ids == new_edge_ids(graph, uvs)
              g1 == add_edges(graph, uvs)
          IN  /\ Len(ids) = k
              /\ ECount(g1) = ECount(graph) + k
              /\ \A i \in 1 .. k :
                    /\ ids[i] = ECount(graph) + (i - 1)
                    /\ <<Edge(g1, ids[i]).source, Edge(g1, ids[i]).target>> = uvs[i]
    /\ \A i \in 1 .. 4 :
          LET id == new_edge_ids(graph, EdgeTuplesOf(w))[i]
          IN  /\ id \in EdgeIds(graph')
              /\ <<Edge(graph', id).source, Edge(graph', id).target>> = EdgeTuplesOf(w)[i]
              /\ Edge(graph', id).uv = EdgeTuplesOf(w)[i]

\* C21: dense id issuance in sequential use.  add_new_node_to_graph returns the
\* vertex count of before the call and raises the vertex count by exactly 1;
\* add_new_edges_to_graph with k endpoint pairs returns the k consecutive ids
\* ecount, ..., ecount + k - 1 (ecount taken before the call) in input order,
\* and the i-th id denotes the edge with the i-th pair.
C21_DenseIds ==
    [][\A w \in Who :
          /\ (pf.node[w] = None /\ pf'.node[w] # None) => C21_NodeStep(w)
          /\ (pf.edges[w] = None /\ pf'.edges[w] # None) => C21_EdgesStep(w)]_vars

\* The origin and then the destination were given a new node and linking
\* edges: the ids vcount and vcount + 1, and eight edges from ecount on.
C21_Witness ==
    /\ pf.node["orig"] # None
    /\ pf.node["dest"] # None
    /\ pf.node["orig"].node = vcount
    /\ pf.node["dest"].node = vcount + 1
    /\ pf.edges["orig"] # None
    /\ pf.edges["dest"] # None
    /\ Edge(graph, ecount + 7).uv = <<pf.split["dest"].edge.uv[2], vcount + 1>>

(***************************************************************************)
(* update_edge_attr_to_graph (graph_handler.py, lines 98-104;              *)
(* specification SpecUpdate).  A row of the edge table holds the edge id   *)
(* id_ig and, in the column df_attr, a dict of attribute updates.          *)
(***************************************************************************)
\* The attribute keys an update dict may hold, and the values it may give them.
UpdateValues ==
    [aqi |-> {Some(15), Some(32)}, noises |-> {Some(55 :> 500)}]

\* The update dicts: a value for each key of some of the keys.
UpdateDicts ==
    {[key \in keys |-> c[key]] :
        keys \in SUBSET (DOMAIN UpdateValues),
        c \in [aqi : UpdateValues.aqi, noises : UpdateValues.noises]}

\* The most rows a table has.
MaxRows == 2

\* The edge tables for graph g: rows for edges of the graph.
EdgeTables(g) ==
    UNION {[1 .. n -> [id_ig : EdgeIds(g), updates : UpdateDicts]] : n \in 0 .. MaxRows}

InitUpdate ==
    /\ graph = GraphHandlerInit(StreetGraph)
    /\ ecount = ECount(graph)
    /\ vcount = VCount(graph)
    /\ pf = IdlePF
    /\ pre = graph
    /\ lcp = NoLcp
    /\ req = NoReq
    /\ policy = "startup"
    /\ hnd = NoHnd
    /\ near = NoNear
    /\ job = NoJob
    /\ ser = NoSer
    /\ pna = NoPna
    /\ har = NoHar
    /\ gone = NoGone
    /\ upd = None

UpdateEdgeAttrToGraph(edge_gdf) ==
    /\ upd = None
    /\ graph' = update_edge_attr_to_graph(graph, edge_gdf)
    /\ pre' = graph
    /\ upd' = Some(edge_gdf)
    /\ UNCHANGED <<ecount, vcount, pf, lcp, req, policy, hnd, near, job, ser, pna, har, gone>>

\* The caller goes on; the next table can be applied.
UpdateReturns ==
    /\ upd # None
    /\ upd' = None
    /\ pre' = graph
    /\ UNCHANGED <<graph, ecount, vcount, pf, lcp, req, policy, hnd, near, job, ser, pna, har, gone>>

NextUpdate ==
    \/ \E edge_gdf \in EdgeTables(graph) : UpdateEdgeAttrToGraph(edge_gdf)
    \/ UpdateReturns

SpecUpdate == InitUpdate /\ [][NextUpdate]_vars

\* The rows of the table for edge e that list key.
RowsFor(edge_gdf, e, key) ==
    {n \in 1 .. Len(edge_gdf) : edge_gdf[n].id_ig = e /\ key \in DOMAIN edge_gdf[n].updates}

\* C22: update_edge_attr_to_graph changes, for each row of the table, only the
\* attribute keys listed in the row's update dict, on the edge whose id is the
\* row's id_ig (to the value of the last row that lists the key); every other
\* attribute of that edge, every attribute of every edge not in the table, all
\* vertices and the vertex and edge counts are unchanged.
C22_UpdateFrame ==
    upd # None =>
        /\ graph.vs = pre.vs
        /\ VCount(graph) = VCount(pre)
        /\ ECount(graph) = ECount(pre)
        /\ \A e \in EdgeIds(pre) :
              /\ DOMAIN Edge(graph, e) = DOMAIN Edge(pre, e)
              /\ \A key \in DOMAIN Edge(pre, e) :
                    LET rows == RowsFor(Val(upd), e, key)
                    IN  IF rows = {}
                        THEN Edge(graph, e)[key] = Edge(pre, e)[key]
                        ELSE Edge(graph, e)[key] =
                                 Val(upd)[CHOOSE n \in rows : \A m \in rows : m <= n].updates[key]

\* A table of two rows has given edge 0 a new AQI and left its noise map, and
\* edge 1 was in no row.
C22_Witness ==
    /\ upd # None
    /\ Len(Val(upd)) = 2
    /\ \A n \in 1 .. 2 : Val(upd)[n].id_ig = 0 /\ DOMAIN Val(upd)[n].updates = {"aqi"}
    /\ Edge(graph, 0).aqi # Edge(pre, 0).aqi
    /\ Edge(graph, 0).noises = Edge(pre, 0).noises
    /\ Edge(graph, 1) = Edge(pre, 1)

(***************************************************************************)
(* The ids that concurrent requests hold (SpecConc).                       *)
(***************************************************************************)
\* The request's splice is live: add_new_node_to_graph has returned to it and
\* its own cleanup has not run yet.
SpliceLive(r) == req[r].node # None /\ req[r].pc # "done"

\* C23 as claimed: two requests that run add_new_node_to_graph concurrently
\* (get_new_node_id, then add_vertex) never hold the same new node id, and the
\* id a request holds denotes the vertex it added, at the point it was added
\* for, for as long as its splice is live, whatever the other requests do.
C23_DistinctStableNodeIds ==
    \A r \in Requests :
        SpliceLive(r) =>
            /\ req[r].node.node \in VertexIds(graph)
            /\ req[r].node.node >= vcount
            /\ Vertex(graph, req[r].node.node).geometry = req[r].point
            /\ \A q \in Requests \ {r} :
                  SpliceLive(q) => req[q].node.node # req[r].node.node

\* C24: under any interleaving of the requests' splices and cleanups, no vertex
\* or edge of the loaded graph is deleted or renumbered: the graph never has
\* fewer vertices or edges than the recorded counts, and every id below the
\* recorded vcount / ecount names the element it named when the graph was loaded.
C24_LoadTimeElementsKept ==
    /\ VCount(graph) >= vcount
    /\ ECount(graph) >= ecount
    /\ \A i \in 0 .. vcount - 1 : Vertex(graph, i) = Vertex(GraphHandlerInit(StreetGraph), i)
    /\ \A e \in 0 .. ecount - 1 : Edge(graph, e) = Edge(GraphHandlerInit(StreetGraph), e)

\* C24, the case: one request has cleaned up while another's splice is live,
\* the deletion has renumbered the other's node so that the id it holds names
\* no vertex, and temporary elements are still in the graph.
C24_Witness ==
    \E r \in Requests : \E q \in Requests \ {r} :
        /\ req[r].pc = "done"
        /\ req[q].pc = "linked"
        /\ req[q].node.node \notin VertexIds(graph)
        /\ VCount(graph) > vcount
        /\ ECount(graph) > ecount

\* The line runs from the position of the pair's first node to the position of
\* its second node.
Oriented(g, geom, uv) ==
    /\ IsLineString(geom)
    /\ geom[1] = Vertex(g, uv[1]).geometry
    /\ geom[Len(geom)] = Vertex(g, uv[2]).geometry

\* What C25 says of a step of create_linking_edges_for_new_node for w.
C25_Step(w) ==
    /\ \A i \in 1 .. 4 :
          LET id == new_edge_ids(graph, EdgeTuplesOf(w))[i]
          IN  Oriented(graph', Edge(graph', id).geometry, Edge(graph', id).uv)
    /\ Oriented(graph', pf'.edges[w].link1.geometry, pf'.edges[w].link1.uv)
    /\ Oriented(graph', pf'.edges[w].link2.geometry, pf'.edges[w].link2.uv)

\* C25 as claimed: each of the four linking edges that
\* create_linking_edges_for_new_node inserts, and each of the link descriptors
\* link1 and link2 it returns, has a geometry whose first point is the position
\* of the source node of its (source, target) pair and whose last point is the
\* position of the target node.
C25_GeometryFollowsPair ==
    [][\A w \in Who : (pf.edges[w] = None /\ pf'.edges[w] # None) => C25_Step(w)]_vars

\* C26 as claimed: each published AQI dataset is applied to the graph at most
\* once, also when two instances of the refresh job overlap and each runs the
\* check and then the update as separate steps.
C26_DatasetAppliedOnce == \A n \in AqiDataNames : job.applied[n] <= 1

\* C27: the noise-cost policy is idempotent.  Its second application, at the
\* service's start, to the graph GraphHandler.__init__ has applied it to
\* changes no edge's noise map and no nc value: the estimated 40 dB band is
\* neither added nor increased again.
C27_PolicyIdempotent ==
    [][policy = "init" =>
          /\ Len(graph'.es) = Len(graph.es)
          /\ \A k \in 1 .. Len(graph.es) :
                /\ graph'.es[k].noises = graph.es[k].noises
                /\ graph'.es[k].nc = graph.es[k].nc]_vars

\* The policy has been applied twice to a graph with an edge to whose noise
\* map the first application added a 40 dB band.
C27_Witness ==
    /\ policy = "startup"
    /\ \E k \in 1 .. Len(graph.es) :
          /\ HasNoises(pre.es[k].noises)
          /\ 40 \notin DOMAIN Val(pre.es[k].noises)
          /\ 40 \in DOMAIN Val(graph.es[k].noises)
          /\ Val(graph.es[k].noises)[40] > 0
          /\ graph.es[k].nc # None

\* C28 as claimed: for every PathNoiseAttrs, also one of a path with no noise
\* data (mdB, nei and nei_norm left absent), get_noise_props_dict returns a
\* flat record and set_noise_diff_attrs completes: neither raises.
C28_AbsentNoiseHandled ==
    /\ pna.props # None =>
          (Val(pna.props).raised = "" /\ Val(pna.props).dict # None)
    /\ pna.called => pna.raised = ""
=============================================================================
